---- MODULE Spec2Model ----
(***************************************************************************)
(* Rate-limit admission engine of the rate-limiting service.               *)
(*                                                                         *)
(* Two limiters are modelled, as the repository ships them:                *)
(*   - the in-memory fixed-window limiter of app/limiter.py                *)
(*     (rate_limits_store, usage_logs, RateLimitBucket), and               *)
(*   - the database limiter of app/db_limiter.py                           *)
(*     (rate_limit_states and rate_limit_logs rows).                       *)
(*                                                                         *)
(* Spec runs sequential checks of one scope key against either limiter;    *)
(* SpecStats adds the statistics calls of the in-memory limiter,           *)
(* SpecScenario runs the scenario of the demo quota, and SpecMemRace and   *)
(* SpecDbRace run concurrent checks of one fresh scope key.                *)
(*                                                                         *)
(* Time is counted in clock ticks, TicksPerSec ticks to the second, so     *)
(* that sub-second instants exist; window_seconds stays in seconds as in   *)
(* the code.  Python strings are sequences of one-character strings        *)
(* ("" is << >>); an Optional[str] is << >> for None and <<s>> for the     *)
(* string s.                                                               *)
(***************************************************************************)
EXTENDS Integers, Sequences, FiniteSets, TLC

VARIABLES
    backend,            \* which service runs: "memory" (main.py) or "database" (main_db.py)
    scope,              \* the scope descriptor the checks of this run are made for
    api_keys_db,        \* credential store: api_key -> quota configuration
    now,                \* the wall clock, in ticks
    rate_limits_store,  \* limiter.py: key -> reference of a RateLimitBucket object
    heap,               \* the RateLimitBucket objects: reference -> fields
    usage_logs,         \* limiter.py: the in-memory ledger
    db_states,          \* rows of table rate_limit_states
    db_logs,            \* rows of table rate_limit_logs
    last,               \* history: the last operation, its inputs, clock reads and result
    gwin,               \* history: the fixed window as the caller observes it
    recent,             \* history: recent[a] = number of checks admitted a ticks ago,
                        \* for every a shorter than the window
    threads,            \* the calls in progress: position and locals of each
    shadow,             \* history: the stores and the last result of the run the
                        \* checks are compared with
    script,             \* history: the number of checks of the scenario made so far
    other,              \* a second scope descriptor checks are made for
    probe               \* the last application of a pure function: arguments and values

vars == <<backend, scope, api_keys_db, now, rate_limits_store, heap, usage_logs,
          db_states, db_logs, last, gwin, recent, threads, shadow, script, other, probe>>

----------------------------------------------------------------------------
(* Bounds of the model *)

TicksPerSec == 2
MaxTime == 8
MaxRequests == 2
MaxWindow == 2
MaxUsageLogs == 2
MaxDbLogs == 3
MaxStatsChecks == 2
MaxExtra == 1
MaxLedgerCalls == 4
MaxAdminCalls == 3
MaxAdminTime == 3
MaxLimit == 2
MaxPage == 2

----------------------------------------------------------------------------
(* Values *)

Max(a, b) == IF a >= b THEN a ELSE b
Min(a, b) == IF a <= b THEN a ELSE b

None == << >>
Some(s) == << s >>
\* Python truthiness of an Optional[str]: None and "" are falsy
Truthy(opt) == opt # None /\ opt[1] # << >>

Colon == << ":" >>
StrUser == << "u", "s", "e", "r" >>
StrAnonymous == << "a", "n", "o", "n", "y", "m", "o", "u", "s" >>
StrGlobal == << "g", "l", "o", "b", "a", "l" >>
StrIp == << "i", "p" >>
\* str(None) inside an f-string
StrNone == << "N", "o", "n", "e" >>

\* the api keys, sub-identities and endpoints the checks are drawn from
KeyA == << "k", "1" >>
EndpointApi == << "/", "a", "p", "i" >>
UserU == << "u", "7" >>
ApiKeys == { KeyA }
UserIds == { None, Some(UserU), Some(<< >>) }
Endpoints == { EndpointApi }

\* a result field the returned dict does not carry
Absent == -1

----------------------------------------------------------------------------
(* app/limiter.py: RateLimitBucket *)

RateLimitBucket(max_requests, window_seconds, t) ==
    [ max_requests   |-> max_requests,
      window_seconds |-> window_seconds,
      requests_count |-> 0,
      window_start   |-> t ]

reset_if_new_window_late(b, t) ==
    IF t - b.window_start > b.window_seconds * TicksPerSec
    THEN [ b EXCEPT !.requests_count = 0, !.window_start = t ]
    ELSE b

reset_if_new_window(b, t) ==
    IF t - b.window_start >= b.window_seconds * TicksPerSec
    THEN [ b EXCEPT !.requests_count = 0, !.window_start = t ]
    ELSE b

consume_off_by_one(b, tokens, t) ==
    LET b1 == reset_if_new_window(b, t) IN
    IF b1.requests_count + tokens < b1.max_requests
    THEN [ bucket |-> [ b1 EXCEPT !.requests_count = @ + tokens ], ok |-> TRUE ]
    ELSE [ bucket |-> b1, ok |-> FALSE ]

consume_check_before_add(b, tokens, t) ==
    LET b1 == reset_if_new_window(b, t) IN
    IF b1.requests_count <= b1.max_requests
    THEN [ bucket |-> [ b1 EXCEPT !.requests_count = @ + tokens ], ok |-> TRUE ]
    ELSE [ bucket |-> b1, ok |-> FALSE ]

consume_always_counts(b, tokens, t) ==
    LET b1 == reset_if_new_window(b, t) IN
    [ bucket |-> [ b1 EXCEPT !.requests_count = @ + tokens ],
      ok     |-> b1.requests_count + tokens <= b1.max_requests ]

consume(b, tokens, t) ==
    LET b1 == reset_if_new_window(b, t) IN
    IF b1.requests_count + tokens <= b1.max_requests
    THEN [ bucket |-> [ b1 EXCEPT !.requests_count = @ + tokens ], ok |-> TRUE ]
    ELSE [ bucket |-> b1, ok |-> FALSE ]

get_remaining(b, t) ==
    LET b1 == reset_if_new_window(b, t) IN
    [ bucket |-> b1, value |-> Max(0, b1.max_requests - b1.requests_count) ]

\* int(x) of a duration of d ticks: truncation toward zero of d / TicksPerSec
IntSeconds(d) ==
    IF d >= 0 THEN d \div TicksPerSec ELSE -((-d) \div TicksPerSec)

\* whether get_retry_after reads the clock
RetryReadsClock(b) == ~(b.requests_count < b.max_requests)

get_retry_after_floor_zero(b, t) ==
    IF b.requests_count < b.max_requests
    THEN 0
    ELSE Max(0, IntSeconds(b.window_seconds * TicksPerSec - (t - b.window_start)))

get_retry_after(b, t) ==
    IF b.requests_count < b.max_requests
    THEN 0
    ELSE Max(1, IntSeconds(b.window_seconds * TicksPerSec - (t - b.window_start)))

----------------------------------------------------------------------------
(* app/limiter.py: get_rate_limit_key *)

get_rate_limit_key(api_key, user_id, endpoint, limit_type) ==
    IF limit_type = "global"
    THEN StrGlobal \o Colon \o endpoint
    ELSE IF limit_type = "ip"
    THEN StrIp \o Colon \o (IF user_id = None THEN StrNone ELSE user_id[1])
               \o Colon \o endpoint
    ELSE StrUser \o Colon \o api_key \o Colon
                 \o (IF Truthy(user_id) THEN user_id[1] ELSE StrAnonymous)
                 \o Colon \o endpoint

----------------------------------------------------------------------------
(* The objects of the in-memory store *)

\* the reference of the next object: objects are numbered in creation order
NewRef(hp) == Cardinality(DOMAIN hp) + 1
Bucket(key) == heap[rate_limits_store[key]]

\* a scope descriptor: what a caller passes to a check
ScopeOf(api_key, user_id, endpoint) ==
    [ api_key |-> api_key, user_id |-> user_id, endpoint |-> endpoint ]

Quotas ==
    [ max_requests : 1 .. MaxRequests, window_seconds : 1 .. MaxWindow, is_active : { TRUE } ]

----------------------------------------------------------------------------
(* app/limiter.py: check_rate_limit *)

\* one ledger entry (limiter.py, log_entry)
LogEntry(ts, api_key, user_id, endpoint, allowed, remaining, retry_after, b) ==
    [ timestamp          |-> ts,
      api_key            |-> api_key,
      user_id            |-> user_id,
      endpoint           |-> endpoint,
      allowed            |-> allowed,
      remaining          |-> remaining,
      retry_after        |-> retry_after,
      window_start       |-> b.window_start,
      requests_in_window |-> b.requests_count ]

\* A ledger that records admitted checks only
AppendLog_allowed_only(logs, entry) ==
    IF entry.allowed THEN Append(logs, entry) ELSE logs

\* A ledger that drops its newest entry when it is full
AppendLog_pops_newest(logs, entry) ==
    LET l1 == Append(logs, entry) IN
    IF Len(l1) > MaxUsageLogs THEN SubSeq(l1, 1, Len(l1) - 1) ELSE l1

\* usage_logs.append(log_entry), then pop(0) when longer than the retention
AppendLog(logs, entry) ==
    LET l1 == Append(logs, entry) IN
    IF Len(l1) > MaxUsageLogs THEN Tail(l1) ELSE l1

\* check_rate_limit after bucket.consume returned ok: get_remaining (clock read
\* t2), get_retry_after (clock read t3), the ledger entry and the result
check_rate_limit_tail(hp, logs, ref, ok, api_key, user_id, endpoint, t2, t3) ==
    LET g       == get_remaining(hp[ref], t2)
        b2      == g.bucket
        retry   == IF ~ok THEN get_retry_after(b2, t3) ELSE 0
        tlast   == IF ~ok /\ RetryReadsClock(b2) THEN t3 ELSE t2
        entry   == LogEntry(tlast, api_key, user_id, endpoint, ok, g.value, retry, b2)
    IN  [ heap   |-> [ hp EXCEPT ![ref] = b2 ],
          logs   |-> AppendLog(logs, entry),
          tlast  |-> tlast,
          result |-> [ status |-> "ok", allowed |-> ok, remaining |-> g.value,
                       retry_after |-> retry ] ]

\* check_rate_limit on the store (st, hp) and ledger logs.  The clock is read
\* at t0 by RateLimitBucket.__init__ (only when the key is new), at t1 by
\* consume, at t2 by get_remaining and at t3 by get_retry_after.
check_rate_limit(st, hp, logs, api_key, cfg, user_id, endpoint, t0, t1, t2, t3) ==
    LET key     == get_rate_limit_key(api_key, user_id, endpoint, "user")
        isNew   == key \notin DOMAIN st
        ref     == IF isNew THEN NewRef(hp) ELSE st[key]
        st1     == IF isNew THEN [ k \in DOMAIN st \cup { key } |->
                                     IF k = key THEN ref ELSE st[k] ]
                            ELSE st
        b0      == IF isNew
                   THEN RateLimitBucket(cfg.max_requests, cfg.window_seconds, t0)
                   ELSE hp[ref]
        c       == consume(b0, 1, t1)
        hp1     == [ r \in DOMAIN hp \cup { ref } |-> IF r = ref THEN c.bucket ELSE hp[r] ]
        tail    == check_rate_limit_tail(hp1, logs, ref, c.ok, api_key, user_id, endpoint,
                                         t2, t3)
    IN  [ store  |-> st1,
          heap   |-> tail.heap,
          logs   |-> tail.logs,
          key    |-> key,
          isNew  |-> isNew,
          before |-> b0,
          tlast  |-> tail.tlast,
          result |-> tail.result ]

----------------------------------------------------------------------------
(* app/limiter.py: get_rate_limit_stats *)

\* Python's  sub in s
Contains(sub, s) ==
    \E i \in 0 .. (Len(s) - Len(sub)) : SubSeq(s, i + 1, i + Len(sub)) = sub

\* len(s.split(':'))
PartCount(s) == Cardinality({ i \in 1 .. Len(s) : s[i] = ":" }) + 1

\* s.split(':')[-1]
LastPart(s) ==
    LET colons == { i \in 1 .. Len(s) : s[i] = ":" }
        from   == IF colons = { } THEN 0
                  ELSE CHOOSE i \in colons : \A j \in colons : j <= i
    IN  SubSeq(s, from + 1, Len(s))

\* get_recent_request_count: the entries of api_key newer than hours hours
get_recent_request_count(logs, api_key, hours, t) ==
    Cardinality({ i \in 1 .. Len(logs) :
                    /\ logs[i].api_key = api_key
                    /\ logs[i].timestamp > t - hours * 3600 * TicksPerSec })

\* the buckets get_rate_limit_stats visits
StatsKeysOf(st, api_key) ==
    { k \in DOMAIN st : Contains(api_key, k) /\ PartCount(k) >= 3 }

get_rate_limit_stats_reset_always(st, hp, logs, api_key, t) ==
    LET visited == { st[k] : k \in StatsKeysOf(st, api_key) }
    IN  [ heap   |-> [ r \in DOMAIN hp |->
                         IF r \in visited
                         THEN [ hp[r] EXCEPT !.requests_count = 0, !.window_start = t ]
                         ELSE hp[r] ],
          result |-> [ api_key |-> api_key ] ]

get_rate_limit_stats_any_key(st, hp, logs, api_key, t) ==
    LET keys    == StatsKeysOf(st, api_key)
        visited == { st[k] : k \in keys }
        hp1     == [ r \in DOMAIN hp |->
                       IF r \in visited THEN reset_if_new_window(hp[r], t) ELSE hp[r] ]
        lastOf(e) == CHOOSE k \in keys :
                        /\ LastPart(k) = e
                        /\ \A k2 \in keys : LastPart(k2) = e => st[k2] <= st[k]
        mine    == 1 .. Len(logs)
        total   == Cardinality(mine)
        allowed == Cardinality({ i \in mine : logs[i].allowed })
    IN  [ heap   |-> hp1,
          result |-> [ api_key            |-> api_key,
                       total_requests     |-> total,
                       allowed_requests   |-> allowed,
                       rejected_requests  |-> total - allowed,
                       buckets            |->
                           [ e \in { LastPart(k) : k \in keys } |->
                               LET b == hp1[st[lastOf(e)]] IN
                               [ remaining_tokens   |-> get_remaining(b, t).value,
                                 max_tokens         |-> b.max_requests,
                                 requests_in_window |-> b.requests_count,
                                 window_seconds     |-> b.window_seconds,
                                 window_start       |-> b.window_start ] ],
                       last_hour_requests |-> get_recent_request_count(logs, api_key, 1, t),
                       last_day_requests  |-> get_recent_request_count(logs, api_key, 24, t) ] ]

\* get_rate_limit_stats at clock value t: the buckets after the call and the
\* dictionary returned.  Of several visited keys with the same last part the
\* one inserted last is reported; objects are numbered in creation order.
get_rate_limit_stats(st, hp, logs, api_key, t) ==
    LET keys    == StatsKeysOf(st, api_key)
        visited == { st[k] : k \in keys }
        hp1     == [ r \in DOMAIN hp |->
                       IF r \in visited THEN reset_if_new_window(hp[r], t) ELSE hp[r] ]
        lastOf(e) == CHOOSE k \in keys :
                        /\ LastPart(k) = e
                        /\ \A k2 \in keys : LastPart(k2) = e => st[k2] <= st[k]
        mine    == { i \in 1 .. Len(logs) : logs[i].api_key = api_key }
        total   == Cardinality(mine)
        allowed == Cardinality({ i \in mine : logs[i].allowed })
    IN  [ heap   |-> hp1,
          result |-> [ api_key            |-> api_key,
                       total_requests     |-> total,
                       allowed_requests   |-> allowed,
                       rejected_requests  |-> total - allowed,
                       buckets            |->
                           [ e \in { LastPart(k) : k \in keys } |->
                               LET b == hp1[st[lastOf(e)]] IN
                               [ remaining_tokens   |-> get_remaining(b, t).value,
                                 max_tokens         |-> b.max_requests,
                                 requests_in_window |-> b.requests_count,
                                 window_seconds     |-> b.window_seconds,
                                 window_start       |-> b.window_start ] ],
                       last_hour_requests |-> get_recent_request_count(logs, api_key, 1, t),
                       last_day_requests  |-> get_recent_request_count(logs, api_key, 24, t) ] ]

\* reset_rate_limits(api_key): the store without the keys that contain api_key,
\* or the empty store when api_key is None or ""
reset_rate_limits(st, api_key) ==
    IF Truthy(api_key)
    THEN LET keep == { k \in DOMAIN st : ~Contains(api_key[1], k) }
         IN  [ k \in keep |-> st[k] ]
    ELSE << >>

----------------------------------------------------------------------------
(* app/db_limiter.py: DatabaseRateLimiter.check_rate_limit *)

\* a row of rate_limit_states (database_models.py, DBRateLimitState)
DBRateLimitState(id, api_key, user_id, endpoint, current_requests, window_start, last_request) ==
    [ id               |-> id,
      api_key          |-> api_key,
      user_id          |-> user_id,
      endpoint         |-> endpoint,
      current_requests |-> current_requests,
      window_start     |-> window_start,
      last_request     |-> last_request ]

\* a row of rate_limit_logs (database_models.py, DBRateLimitLog), as _log_usage fills it
DBRateLimitLog(api_key, user_id, endpoint, method, timestamp) ==
    [ api_key |-> api_key, user_id |-> user_id, endpoint |-> endpoint,
      method |-> method, timestamp |-> timestamp ]

\* the rows the query of check_rate_limit selects: api_key, then user_id (or
\* user_id IS NULL when the argument is falsy), then endpoint
StateQuery(rows, api_key, user_id, endpoint) ==
    { r \in rows :
        /\ r.api_key = api_key
        /\ IF Truthy(user_id) THEN r.user_id = user_id ELSE r.user_id = None
        /\ r.endpoint = endpoint }

\* UniqueConstraint('api_key', 'user_id', 'endpoint'): NULL user_ids are
\* distinct from each other, every other value is compared
ViolatesUnique(rows, row) ==
    /\ row.user_id # None
    /\ \E r \in rows : /\ r.api_key = row.api_key
                       /\ r.user_id = row.user_id
                       /\ r.endpoint = row.endpoint

\* the autoincremented primary key
NextId(rows) == IF rows = { } THEN 1
                ELSE (CHOOSE m \in { r.id : r \in rows } : \A r \in rows : r.id <= m) + 1

NoRow == DBRateLimitState(0, << >>, None, << >>, 0, 0, 0)

\* the row of the table that the loaded object found stands for
Current(rows, found) ==
    IF \E r \in rows : r.id = found.id
    THEN CHOOSE r \in rows : r.id = found.id
    ELSE found

\* UPDATE rate_limit_states SET ... WHERE id = row.id
Update(rows, row) == { r \in rows : r.id # row.id } \cup { row }

Raise(what) ==
    [ status |-> what, allowed |-> FALSE, remaining |-> 0, retry_after |-> 0 ]

Decision(allowed, remaining, retry_after) ==
    [ status |-> "ok", allowed |-> allowed, remaining |-> remaining,
      retry_after |-> retry_after ]

\* A verification that does not look at is_active
verify_api_key_ignores_inactive(keys, api_key) ==
    IF api_key \notin DOMAIN keys THEN "Invalid API key" ELSE "ok"

\* db_limiter.py verify_api_key (db_auth.py): the credential's quota, or the error raised
verify_api_key(keys, api_key) ==
    IF api_key \notin DOMAIN keys THEN "Invalid API key"
    ELSE IF ~keys[api_key].is_active THEN "API key is inactive"
    ELSE "ok"

\* retry_after of the denied branch: max(0, int((reset_time - current_time).total_seconds()))
db_retry_after_floor_one(row, window_seconds, t) ==
    Max(1, IntSeconds(row.window_start + window_seconds * TicksPerSec - t))

db_retry_after(row, window_seconds, t) ==
    Max(0, IntSeconds(row.window_start + window_seconds * TicksPerSec - t))

\* whether the window of the row has expired at t
db_window_expired_late(row, window_seconds, t) ==
    t - row.window_start > window_seconds * TicksPerSec

db_window_expired(row, window_seconds, t) ==
    t - row.window_start >= window_seconds * TicksPerSec

\* One call on the tables (rows, logs) with the credentials keys; found is
\* query.first(): a row of the selection, or NoRow when it is empty.  The clock
\* is read at t (current_time) and at tlog (by _log_usage).
db_check_rate_limit(rows, logs, keys, api_key, user_id, endpoint, method, found, t, tlog) ==
    LET v        == verify_api_key(keys, api_key)
        max_requests   == keys[api_key].max_requests
        window_seconds == keys[api_key].window_seconds
        log      == DBRateLimitLog(api_key, user_id, endpoint, method, tlog)
        created  == DBRateLimitState(NextId(rows), api_key, user_id, endpoint, 1, t, t)
        rolled   == [ found EXCEPT !.current_requests = 1, !.window_start = t,
                                   !.last_request = t ]
        counted  == [ Current(rows, found) EXCEPT
                          !.current_requests = found.current_requests + 1,
                          !.last_request = t ]
    IN  IF v # "ok"
        THEN [ rows |-> rows, logs |-> logs, after |-> NoRow, result |-> Raise(v) ]
        ELSE IF found = NoRow
        THEN IF ViolatesUnique(rows, created)
             THEN [ rows |-> rows, logs |-> logs, after |-> NoRow,
                    result |-> Raise("IntegrityError") ]
             ELSE [ rows |-> rows \cup { created }, logs |-> Append(logs, log),
                    after |-> created,
                    result |-> Decision(TRUE, max_requests - 1, Absent) ]
        ELSE IF db_window_expired(found, window_seconds, t)
        THEN [ rows |-> Update(rows, rolled), logs |-> Append(logs, log),
               after |-> rolled,
               result |-> Decision(TRUE, max_requests - 1, Absent) ]
        ELSE IF found.current_requests < max_requests
        THEN [ rows |-> Update(rows, counted), logs |-> Append(logs, log),
               after |-> counted,
               result |-> Decision(TRUE, max_requests - counted.current_requests, Absent) ]
        ELSE [ rows |-> rows, logs |-> logs, after |-> found,
               result |-> Decision(FALSE, 0, db_retry_after(found, window_seconds, t)) ]

\* the commits of one call that the storage can fail: none, the commit of the
\* counter row inside check_rate_limit (db_limiter.py:58, 81, 100), or the
\* commit at the exit of get_db_session that persists the log row
CommitFailures == { "none", "counter", "exit" }

\* check_rate_limit when the storage fails the commit named by fail.  A failed
\* commit raises; get_db_session rolls back what is not yet committed and
\* re-raises.  The denied branch commits nothing before the exit.
db_check_rate_limit_failing(rows, logs, keys, api_key, user_id, endpoint, method, found, t, tlog, fail) ==
    LET d == db_check_rate_limit(rows, logs, keys, api_key, user_id, endpoint, method,
                                 found, t, tlog)
    IN  IF fail = "none" \/ d.result.status # "ok" THEN d
        ELSE IF fail = "counter" /\ d.result.allowed
        THEN [ rows |-> rows, logs |-> logs, after |-> NoRow,
               result |-> Raise("OperationalError") ]
        ELSE [ rows |-> d.rows, logs |-> logs, after |-> d.after,
               result |-> Raise("OperationalError") ]

----------------------------------------------------------------------------
(* app/db_limiter.py: get_usage_stats, get_system_stats *)

SecondsPerHour == 3600
DefaultRetryAfter == 60

\* the log rows get_usage_stats selects: api_key and timestamp >= since_time,
\* then user_id and endpoint when the argument is truthy
UsageLogQuery(logs, api_key, user_id, endpoint, since) ==
    { i \in 1 .. Len(logs) :
        /\ logs[i].api_key = api_key
        /\ logs[i].timestamp >= since
        /\ Truthy(user_id) => logs[i].user_id = user_id
        /\ Truthy(endpoint) => logs[i].endpoint = endpoint[1] }

\* the counter rows get_usage_stats selects: api_key, then user_id (or user_id
\* IS NULL when the argument is falsy), then endpoint when it is truthy
UsageStateQuery(rows, api_key, user_id, endpoint) ==
    { r \in rows :
        /\ r.api_key = api_key
        /\ IF Truthy(user_id) THEN r.user_id = user_id ELSE r.user_id = None
        /\ Truthy(endpoint) => r.endpoint = endpoint[1] }

\* the dictionary get_usage_stats returns; rate_state is query.first(): a row of
\* the selection, or NoRow when it is empty; the clock is read at t
usage_stats(rows, logs, keys, api_key, user_id, endpoint, hours, rate_state, t) ==
    LET since == t - hours * SecondsPerHour * TicksPerSec
        sel   == UsageLogQuery(logs, api_key, user_id, endpoint, since)
    IN  [ status                  |-> "ok",
          api_key                 |-> api_key,
          total_requests_24h      |-> Cardinality(sel),
          current_window_requests |-> IF rate_state = NoRow THEN 0
                                      ELSE rate_state.current_requests,
          window_start            |-> IF rate_state = NoRow THEN None
                                      ELSE Some(rate_state.window_start),
          endpoint_breakdown      |->
              [ e \in { logs[i].endpoint : i \in sel } |->
                  Cardinality({ i \in sel : logs[i].endpoint = e }) ],
          rate_limit              |-> [ max_requests   |-> keys[api_key].max_requests,
                                        window_seconds |-> keys[api_key].window_seconds ],
          last_request            |-> IF rate_state = NoRow THEN None
                                      ELSE Some(rate_state.last_request) ]

\* Statistics that stamp the row they read
get_usage_stats_stamps_row(rows, logs, keys, api_key, user_id, endpoint, hours, rate_state, t) ==
    [ rows   |-> IF verify_api_key(keys, api_key) = "ok" /\ rate_state # NoRow
                 THEN Update(rows, [ rate_state EXCEPT !.last_request = t ])
                 ELSE rows,
      logs   |-> logs,
      result |-> IF verify_api_key(keys, api_key) # "ok"
                 THEN [ status |-> verify_api_key(keys, api_key) ]
                 ELSE usage_stats(rows, logs, keys, api_key, user_id, endpoint, hours,
                                  rate_state, t) ]

\* get_usage_stats on the tables (rows, logs): the tables after the call and
\* the dictionary returned, or the error raised
get_usage_stats(rows, logs, keys, api_key, user_id, endpoint, hours, rate_state, t) ==
    [ rows   |-> rows,
      logs   |-> logs,
      result |-> IF verify_api_key(keys, api_key) # "ok"
                 THEN [ status |-> verify_api_key(keys, api_key) ]
                 ELSE usage_stats(rows, logs, keys, api_key, user_id, endpoint, hours,
                                  rate_state, t) ]

\* get_system_stats on the tables (rows, logs); the owners of the credentials
\* (total_users) are not part of the state
get_system_stats(rows, logs, keys, t) ==
    LET since == t - 24 * SecondsPerHour * TicksPerSec
    IN  [ rows   |-> rows,
          logs   |-> logs,
          result |-> [ status              |-> "ok",
                       total_api_keys      |->
                           Cardinality({ k \in DOMAIN keys : keys[k].is_active }),
                       active_api_keys_24h |->
                           Cardinality({ r \in rows : r.last_request >= since }),
                       total_requests_24h  |->
                           Cardinality({ i \in 1 .. Len(logs) : logs[i].timestamp >= since }),
                       timestamp           |-> t ] ]

----------------------------------------------------------------------------
(* History kept for the properties *)

NoCall ==
    [ op |-> "none", sc |-> << >>, first |-> 0, tadmit |-> 0, tlast |-> 0, isNew |-> FALSE, had |-> FALSE,
      before |-> RateLimitBucket(0, 0, 0), after |-> RateLimitBucket(0, 0, 0),
      gbefore |-> [ start |-> -1, calls |-> 0, admitted |-> 0, ok |-> TRUE ],
      opening |-> FALSE, stats |-> << >>,
      result |-> [ status |-> "none", allowed |-> FALSE, remaining |-> 0, retry_after |-> 0 ] ]

NoWindow == [ start |-> -1, calls |-> 0, admitted |-> 0, ok |-> TRUE ]

NoProbe == [ op |-> "none" ]

NoShadow == [ store |-> << >>, heap |-> << >>, logs |-> << >>,
              rows |-> { }, dblogs |-> << >>,
              touched |-> FALSE, followed |-> FALSE,
              result |-> [ status |-> "none", allowed |-> FALSE, remaining |-> 0,
                           retry_after |-> 0 ] ]

\* The fixed window as a caller observes it from the times of its own checks:
\* a window opens with the first check, and with the first check made
\* window_seconds or more after the current window opened.
Opens(g, cfg, first) ==
    g.start = -1 \/ first - g.start >= cfg.window_seconds * TicksPerSec

Observe(g, cfg, first, tlast, allowed) ==
    LET cap  == cfg.max_requests + 1
        one  == IF allowed THEN 1 ELSE 0
    IN  IF Opens(g, cfg, first)
        THEN [ start |-> first, calls |-> 1, admitted |-> one,
               ok |-> tlast < first + cfg.window_seconds * TicksPerSec ]
        ELSE [ start |-> g.start,
               calls |-> Min(g.calls + 1, cap),
               admitted |-> Min(g.admitted + one, cap),
               ok |-> g.ok /\ tlast < g.start + cfg.window_seconds * TicksPerSec ]

\* The admissions of the trailing interval of length window_seconds: the
\* ticks now - window + 1 .. now, as ages 0 .. window - 1.
AdmitCap == 2 * MaxRequests + 1
Admit(rc, allowed) ==
    IF allowed THEN [ rc EXCEPT ![0] = Min(@ + 1, AdmitCap) ] ELSE rc
Age(rc) == [ a \in DOMAIN rc |-> IF a = 0 THEN 0 ELSE rc[a - 1] ]
RECURSIVE AgeBy(_, _)
AgeBy(rc, n) == IF n <= 0 THEN rc ELSE AgeBy(Age(rc), n - 1)
RECURSIVE SumUpTo(_, _)
SumUpTo(rc, a) == IF a < 0 THEN 0 ELSE rc[a] + SumUpTo(rc, a - 1)
AdmittedInTrailingInterval == SumUpTo(recent, Cardinality(DOMAIN recent) - 1)

\* the history of the windows follows the check just made (last')
Observed ==
    /\ gwin' = IF last'.result.status \in { "Invalid API key", "API key is inactive" }
               THEN gwin
               ELSE Observe(gwin, api_keys_db[scope.api_key], last'.first, last'.tlast,
                            last'.result.allowed)
    /\ recent' = AgeBy(Admit(AgeBy(recent, last'.tadmit - now), last'.result.allowed),
                       last'.tlast - last'.tadmit)

----------------------------------------------------------------------------
(* Actions *)

\* the clock advances by one tick
Tick ==
    /\ now < MaxTime
    /\ now' = now + 1
    /\ recent' = Age(recent)
    /\ UNCHANGED <<backend, scope, api_keys_db, rate_limits_store, heap, usage_logs,
                   db_states, db_logs, last, gwin, threads, shadow, script, other, probe>>

\* main.py check_limit for the request sc: verify_api_key, then
\* check_rate_limit.  Between two clock reads of the call the clock advances
\* by a number of ticks of Drifts.
MemCheckOf(sc, Drifts) ==
    /\ backend = "memory"
    /\ \E d1, d2, d3 \in Drifts :
        LET v     == verify_api_key(api_keys_db, sc.api_key)
            cfg   == api_keys_db[sc.api_key]
            key   == get_rate_limit_key(sc.api_key, sc.user_id, sc.endpoint, "user")
            isNew == key \notin DOMAIN rate_limits_store
            t0    == now
            t1    == now + d1
            t2    == t1 + d2
            t3    == t2 + d3
            r     == check_rate_limit(rate_limits_store, heap, usage_logs,
                                      sc.api_key, cfg, sc.user_id, sc.endpoint,
                                      t0, t1, t2, t3)
        IN  IF v # "ok"
            THEN /\ d1 = 0 /\ d2 = 0 /\ d3 = 0
                 /\ last' = [ NoCall EXCEPT !.op = "check", !.sc = sc, !.first = now,
                                            !.tadmit = now,
                                            !.tlast = now,
                                            !.result = Raise(v) ]
                 /\ UNCHANGED <<now, rate_limits_store, heap, usage_logs>>
            ELSE /\ (~isNew => d1 = 0)
                 /\ (r.tlast = t2 => d3 = 0)
                 /\ now' = r.tlast
                 /\ rate_limits_store' = r.store
                 /\ heap' = r.heap
                 /\ usage_logs' = r.logs
                 /\ last' = [ op |-> "check", sc |-> sc, first |-> now, tadmit |-> t1,
                              tlast |-> r.tlast, isNew |-> r.isNew, had |-> ~r.isNew,
                              before |-> r.before, after |-> r.heap[r.store[r.key]],
                              gbefore |-> gwin, opening |-> Opens(gwin, cfg, now),
                              stats |-> << >>, result |-> r.result ]
    /\ UNCHANGED <<backend, scope, other, api_keys_db, db_states, db_logs>>

\* a check of the scope of the run, reading one clock value throughout
MemCheck ==
    /\ MemCheckOf(scope, { 0 })
    /\ Observed
    /\ UNCHANGED <<threads, shadow, script, probe>>

\* the rows that carry exactly the triple of a scope descriptor
OwnRows(rows, sc) ==
    { r \in rows : r.api_key = sc.api_key /\ r.user_id = sc.user_id
                   /\ r.endpoint = sc.endpoint }

\* main_db.py: a request handler calls db_rate_limiter.check_rate_limit for the
\* request sc
DbCheckOf(sc, Drifts) ==
    /\ backend = "database"
    /\ \E d \in Drifts :
       \E found \in IF StateQuery(db_states, sc.api_key, sc.user_id, sc.endpoint) = { }
                     THEN { NoRow }
                     ELSE StateQuery(db_states, sc.api_key, sc.user_id, sc.endpoint) :
        LET v   == verify_api_key(api_keys_db, sc.api_key)
            r   == db_check_rate_limit(db_states, db_logs, api_keys_db,
                                       sc.api_key, sc.user_id, sc.endpoint,
                                       "GET", found, now, now + d)
            logged == r.logs # db_logs
            tlast  == IF logged THEN now + d ELSE now
            own    == OwnRows(db_states, sc)
            own2   == OwnRows(r.rows, sc)
        IN  /\ (~logged => d = 0)
            /\ now' = tlast
            /\ db_states' = r.rows
            /\ db_logs' = r.logs
            /\ last' = [ op |-> "check", sc |-> sc, first |-> now, tadmit |-> now,
                         tlast |-> tlast, isNew |-> (found = NoRow), had |-> (own # { }),
                         before |-> IF own = { } THEN NoRow ELSE CHOOSE x \in own : TRUE,
                         after |-> IF own2 = { } THEN NoRow ELSE CHOOSE x \in own2 : TRUE,
                         gbefore |-> gwin,
                         opening |-> (v = "ok" /\ Opens(gwin, api_keys_db[sc.api_key], now)),
                         stats |-> << >>, result |-> r.result ]
    /\ UNCHANGED <<backend, scope, other, api_keys_db, rate_limits_store, heap, usage_logs>>

\* a check of the scope of the run, reading one clock value throughout
DbCheck ==
    /\ DbCheckOf(scope, { 0 })
    /\ Len(db_logs') <= MaxDbLogs
    /\ Observed
    /\ UNCHANGED <<threads, shadow, script, probe>>

----------------------------------------------------------------------------
(* Statistics calls between checks of the in-memory limiter *)

\* the arguments get_rate_limit_stats is called with
StatsArgs == ApiKeys \cup { UserU }

\* get_rate_limit_stats(api_key), reading one clock value throughout
StatsCall ==
    /\ backend = "memory"
    /\ \E k \in StatsArgs :
        LET r == get_rate_limit_stats(rate_limits_store, heap, usage_logs, k, now)
        IN  /\ heap' = r.heap
            /\ last' = [ NoCall EXCEPT !.op = "stats", !.first = now, !.tlast = now,
                                       !.stats = r.result ]
            /\ shadow' = [ shadow EXCEPT !.touched = @ \/ r.heap # heap ]
    /\ UNCHANGED <<backend, scope, api_keys_db, now, rate_limits_store, usage_logs,
                   db_states, db_logs, gwin, recent, threads, script, other, probe>>

\* a check of the scope of the run, made as well on the store of the run
\* without statistics calls; that store then follows the store of the run
StatsCheck ==
    /\ script < MaxStatsChecks
    /\ script' = script + 1
    /\ MemCheckOf(scope, { 0 })
    /\ UNCHANGED <<gwin, recent>>
    /\ LET v == verify_api_key(api_keys_db, scope.api_key)
           r == check_rate_limit(shadow.store, shadow.heap, shadow.logs,
                                 scope.api_key, api_keys_db[scope.api_key],
                                 scope.user_id, scope.endpoint, now, now, now, now)
       IN  shadow' = [ store    |-> rate_limits_store',
                       heap     |-> heap',
                       logs     |-> usage_logs',
                       rows     |-> { },
                       dblogs   |-> << >>,
                       touched  |-> FALSE,
                       followed |-> shadow.touched,
                       result   |-> IF v = "ok" THEN r.result ELSE Raise(v) ]
    /\ UNCHANGED <<threads, probe>>

\* the credentials, the scope of the run and the empty history of admissions
InitConfig(Q) ==
    /\ backend \in { "memory", "database" }
    /\ scope \in { ScopeOf(k, u, e) : k \in ApiKeys, u \in UserIds, e \in Endpoints }
    /\ api_keys_db \in [ ApiKeys -> Q ]
    /\ recent = [ a \in 0 .. (api_keys_db[scope.api_key].window_seconds * TicksPerSec - 1) |-> 0 ]

\* the stores of a service that has just started
InitStores ==
    /\ now = 0
    /\ rate_limits_store = << >>
    /\ heap = << >>
    /\ usage_logs = << >>
    /\ db_states = { }
    /\ db_logs = << >>
    /\ last = NoCall
    /\ gwin = NoWindow
    /\ shadow = NoShadow
    /\ script = 0
    /\ probe = NoProbe

Init ==
    /\ InitConfig(Quotas)
    /\ InitStores
    /\ threads = << >>
    /\ other = scope

Next == Tick \/ MemCheck \/ DbCheck

Spec == Init /\ [][Next]_vars

\* the in-memory service; a scope key with a sub-identity and one without
InitStats == Init /\ backend = "memory" /\ scope.user_id # Some(<< >>)

NextStats == Tick \/ StatsCheck \/ StatsCall

SpecStats == InitStats /\ [][NextStats]_vars

----------------------------------------------------------------------------
(* Checks for two sub-identities of one credential and endpoint *)

\* the sub-identities of the two scope descriptors: absent, empty, a user
\* name, and the word the key builder puts for an absent one
UserIdsWide == UserIds \cup { Some(StrAnonymous) }

\* the result of the same check in the run in which only the checks for scope
\* are made, and the stores of that run after it
SoloCheck ==
    LET v == verify_api_key(api_keys_db, scope.api_key)
        m == check_rate_limit(shadow.store, shadow.heap, shadow.logs, scope.api_key,
                              api_keys_db[scope.api_key], scope.user_id, scope.endpoint,
                              now, now, now, now)
        q == StateQuery(shadow.rows, scope.api_key, scope.user_id, scope.endpoint)
        d == db_check_rate_limit(shadow.rows, shadow.dblogs, api_keys_db, scope.api_key,
                                 scope.user_id, scope.endpoint, "GET",
                                 IF q = { } THEN NoRow ELSE CHOOSE x \in q : TRUE,
                                 now, now)
    IN  IF v # "ok" THEN [ shadow EXCEPT !.result = Raise(v) ]
        ELSE IF backend = "memory"
        THEN [ shadow EXCEPT !.store = m.store, !.heap = m.heap, !.logs = m.logs,
                             !.result = m.result ]
        ELSE [ shadow EXCEPT !.rows = d.rows, !.dblogs = d.logs, !.result = d.result ]

\* a check for scope, made as well in the run without the checks for other
TwoCheckMine ==
    /\ MemCheckOf(scope, { 0 }) \/ DbCheckOf(scope, { 0 })
    /\ Len(db_logs') <= MaxDbLogs
    /\ shadow' = SoloCheck
    /\ UNCHANGED <<gwin, recent, threads, script, probe>>

\* a check for other
TwoCheckOther ==
    /\ MemCheckOf(other, { 0 }) \/ DbCheckOf(other, { 0 })
    /\ Len(db_logs') <= MaxDbLogs
    /\ UNCHANGED <<gwin, recent, shadow, threads, script, probe>>

\* two scope descriptors that differ in the sub-identity only
InitTwo ==
    /\ InitConfig(Quotas)
    /\ InitStores
    /\ threads = << >>
    /\ other \in { ScopeOf(scope.api_key, u, scope.endpoint) : u \in UserIdsWide }
    /\ other # scope

NextTwo == TwoCheckMine \/ TwoCheckOther

SpecTwo == InitTwo /\ [][NextTwo]_vars

----------------------------------------------------------------------------
(* The scenario of the demo quota: 10 requests per 60 seconds *)

\* the quota of the key "demo123" (auth.py)
DemoQuota == [ max_requests |-> 10, window_seconds |-> 60, is_active |-> TRUE ]

\* the times, in seconds, of the checks of the scenario
ScenarioTimes == << 0, 0, 0, 0, 0, 0, 0, 0, 0, 0, 5, 61 >>

ScenarioTick ==
    /\ script < Len(ScenarioTimes)
    /\ now < ScenarioTimes[script + 1] * TicksPerSec
    /\ now' = now + 1
    /\ recent' = Age(recent)
    /\ UNCHANGED <<backend, scope, api_keys_db, rate_limits_store, heap, usage_logs,
                   db_states, db_logs, last, gwin, threads, shadow, script, other, probe>>

ScenarioCheck ==
    /\ script < Len(ScenarioTimes)
    /\ now = ScenarioTimes[script + 1] * TicksPerSec
    /\ MemCheckOf(scope, { 0 }) \/ DbCheckOf(scope, { 0 })
    /\ Observed
    /\ script' = script + 1
    /\ UNCHANGED <<threads, shadow, probe>>

InitScenario ==
    /\ InitConfig({ DemoQuota })
    /\ InitStores
    /\ threads = << >>
    /\ other = scope

NextScenario == ScenarioTick \/ ScenarioCheck

SpecScenario == InitScenario /\ [][NextScenario]_vars

----------------------------------------------------------------------------
(* app/limiter.py: check_global_rate_limit *)

\* the seconds of the minute the global limit is stated for
SecondsPerMinute == 60

\* the global limits the callers pass: multiples of SecondsPerMinute, for
\* which global_limit / 60 is a whole number of seconds
GlobalLimits == { 60, 120 }

\* f"global:{endpoint}"
global_key(endpoint) == StrGlobal \o Colon \o endpoint

\* check_global_rate_limit(endpoint, global_limit) on the store (st, hp) at
\* clock value t (read by RateLimitBucket.__init__ and by consume)
check_global_rate_limit(st, hp, endpoint, global_limit, t) ==
    LET key   == global_key(endpoint)
        isNew == key \notin DOMAIN st
        ref   == IF isNew THEN NewRef(hp) ELSE st[key]
        st1   == IF isNew THEN [ k \in DOMAIN st \cup { key } |->
                                   IF k = key THEN ref ELSE st[k] ]
                          ELSE st
        hp1   == IF isNew
                 THEN Append(hp, RateLimitBucket(global_limit,
                                     global_limit \div SecondsPerMinute, t))
                 ELSE hp
        c     == consume(hp1[ref], 1, t)
    IN  [ store |-> st1, heap |-> [ hp1 EXCEPT ![ref] = c.bucket ], result |-> c.ok ]

\* the limit and the minute the callers of check_global_rate_limit expect
GlobalCfg(global_limit) ==
    [ max_requests |-> global_limit, window_seconds |-> SecondsPerMinute ]

\* one call of check_global_rate_limit; every caller passes the same limit, and
\* global_limit + MaxExtra calls are made
GlobalCheck ==
    /\ \E g \in GlobalLimits :
         /\ global_key(scope.endpoint) \in DOMAIN rate_limits_store
                => g = Bucket(global_key(scope.endpoint)).max_requests
         /\ gwin.calls < g + MaxExtra
         /\ LET r == check_global_rate_limit(rate_limits_store, heap, scope.endpoint, g, now)
            IN  /\ rate_limits_store' = r.store
                /\ heap' = r.heap
                /\ last' = [ NoCall EXCEPT !.op = "global", !.first = now, !.tadmit = now,
                                           !.tlast = now,
                                           !.result = [ status |-> "ok", allowed |-> r.result,
                                                        remaining |-> 0, retry_after |-> 0 ] ]
                /\ gwin' = Observe(gwin, GlobalCfg(g), now, now, r.result)
    /\ UNCHANGED <<backend, scope, other, api_keys_db, now, usage_logs, db_states, db_logs,
                   recent, threads, shadow, script, probe>>

InitGlobal ==
    /\ InitConfig({ DemoQuota })
    /\ backend = "memory"
    /\ scope.user_id = None
    /\ InitStores
    /\ threads = << >>
    /\ other = scope

NextGlobal == Tick \/ GlobalCheck

SpecGlobal == InitGlobal /\ [][NextGlobal]_vars

----------------------------------------------------------------------------
(* app/limiter.py: get_rate_limit_key applied to two api keys *)

KeyB == << "k", "2" >>
EndpointData == << "/", "d" >>
KeyArgs == { KeyA, KeyB, UserU }
EndpointArgs == { EndpointApi, EndpointData }
\* "user" stands for every limit_type other than 'global' and 'ip'
LimitTypes == { "user", "ip", "global" }

\* two calls of get_rate_limit_key that differ in api_key at most
KeyCall ==
    /\ \E a \in KeyArgs, b \in KeyArgs, u \in UserIdsWide, e \in EndpointArgs,
          lt \in LimitTypes :
         probe' = [ op |-> "key", limit_type |-> lt, user_id |-> u, endpoint |-> e,
                    api_key |-> << a, b >>,
                    key |-> << get_rate_limit_key(a, u, e, lt),
                               get_rate_limit_key(b, u, e, lt) >> ]
    /\ UNCHANGED <<backend, scope, other, api_keys_db, now, rate_limits_store, heap,
                   usage_logs, db_states, db_logs, last, gwin, recent, threads, shadow,
                   script>>

InitKeys ==
    /\ InitConfig({ DemoQuota })
    /\ backend = "memory"
    /\ scope.user_id = None
    /\ InitStores
    /\ threads = << >>
    /\ other = scope

NextKeys == KeyCall

SpecKeys == InitKeys /\ [][NextKeys]_vars

----------------------------------------------------------------------------
(* Checks made with a credential that is unknown or inactive *)

\* an api key that is not registered
KeyUnknown == << "k", "9" >>

\* a check made with the credential of other, reading one clock value throughout
CredCheck ==
    /\ MemCheckOf(other, { 0 }) \/ DbCheckOf(other, { 0 })
    /\ Len(db_logs') <= MaxDbLogs
    /\ UNCHANGED <<gwin, recent, threads, shadow, script, probe>>

\* KeyA is registered and active, KeyB is registered and inactive; other has
\* the sub-identity and the endpoint of scope and a credential that fails
InitCred ==
    /\ backend \in { "memory", "database" }
    /\ scope \in { ScopeOf(KeyA, Some(UserU), e) : e \in Endpoints }
    /\ api_keys_db \in { [ k \in { KeyA, KeyB } |->
                              IF k = KeyA THEN q ELSE [ q EXCEPT !.is_active = FALSE ] ] :
                          q \in Quotas }
    /\ recent = [ a \in 0 .. (api_keys_db[scope.api_key].window_seconds * TicksPerSec - 1) |-> 0 ]
    /\ InitStores
    /\ threads = << >>
    /\ other \in { ScopeOf(k, scope.user_id, scope.endpoint) : k \in { KeyB, KeyUnknown } }

NextCred == Tick \/ MemCheck \/ DbCheck \/ CredCheck

SpecCred == InitCred /\ [][NextCred]_vars

----------------------------------------------------------------------------
(* The two limiters fed the same sequence of checks *)

\* one check of scope made against the in-memory limiter (result in last) and
\* against the database limiter (result in shadow) at the same clock value
PairCheck ==
    /\ \E found \in IF StateQuery(db_states, scope.api_key, scope.user_id, scope.endpoint) = { }
                     THEN { NoRow }
                     ELSE StateQuery(db_states, scope.api_key, scope.user_id, scope.endpoint) :
        LET v == verify_api_key(api_keys_db, scope.api_key)
            m == check_rate_limit(rate_limits_store, heap, usage_logs, scope.api_key,
                                  api_keys_db[scope.api_key], scope.user_id, scope.endpoint,
                                  now, now, now, now)
            d == db_check_rate_limit(db_states, db_logs, api_keys_db, scope.api_key,
                                     scope.user_id, scope.endpoint, "GET", found, now, now)
        IN  /\ Len(d.logs) <= MaxDbLogs
            /\ db_states' = d.rows
            /\ db_logs' = d.logs
            /\ shadow' = [ shadow EXCEPT !.result = d.result ]
            /\ IF v # "ok"
               THEN /\ last' = [ NoCall EXCEPT !.op = "check", !.sc = scope, !.first = now,
                                               !.tadmit = now, !.tlast = now,
                                               !.result = Raise(v) ]
                    /\ UNCHANGED <<rate_limits_store, heap, usage_logs>>
               ELSE /\ rate_limits_store' = m.store
                    /\ heap' = m.heap
                    /\ usage_logs' = m.logs
                    /\ last' = [ NoCall EXCEPT !.op = "check", !.sc = scope, !.first = now,
                                               !.tadmit = now, !.tlast = now,
                                               !.isNew = m.isNew, !.had = ~m.isNew,
                                               !.before = m.before,
                                               !.after = m.heap[m.store[m.key]],
                                               !.result = m.result ]
    /\ UNCHANGED <<backend, scope, other, api_keys_db, now, gwin, recent, threads, script,
                   probe>>

InitPair ==
    /\ InitConfig(Quotas)
    /\ backend = "memory"
    /\ InitStores
    /\ threads = << >>
    /\ other = scope

NextPair == Tick \/ PairCheck

SpecPair == InitPair /\ [][NextPair]_vars

----------------------------------------------------------------------------
(* app/limiter.py: check_rate_limit called with any api_key and quota *)

\* the api keys check_rate_limit is called with: a registered one and the
\* empty string
DirectKeys == { KeyA, << >> }

\* check_rate_limit(api_key, api_key_config, user_id, endpoint) for the scope of
\* the run with the quota the caller supplies to this call, reading one clock
\* value throughout
DirectCheck ==
    /\ \E k \in { scope.api_key }, cfg \in Quotas :
        LET r == check_rate_limit(rate_limits_store, heap, usage_logs, k, cfg,
                                  scope.user_id, scope.endpoint, now, now, now, now)
        IN  /\ rate_limits_store' = r.store
            /\ heap' = r.heap
            /\ usage_logs' = r.logs
            /\ last' = [ NoCall EXCEPT !.op = "check",
                                       !.sc = ScopeOf(k, scope.user_id, scope.endpoint),
                                       !.first = now, !.tadmit = now, !.tlast = now,
                                       !.isNew = r.isNew, !.had = ~r.isNew,
                                       !.before = r.before,
                                       !.after = r.heap[r.store[r.key]],
                                       !.result = r.result ]
            /\ probe' = [ op |-> "direct", cfg |-> cfg ]
    /\ UNCHANGED <<backend, scope, other, api_keys_db, now, db_states, db_logs, gwin,
                   recent, threads, shadow, script>>

InitDirect ==
    /\ backend = "memory"
    /\ scope \in { ScopeOf(k, None, e) : k \in DirectKeys, e \in Endpoints }
    /\ api_keys_db = [ k \in ApiKeys |-> DemoQuota ]
    /\ recent = << >>
    /\ InitStores
    /\ threads = << >>
    /\ other = scope

NextDirect == Tick \/ DirectCheck

SpecDirect == InitDirect /\ [][NextDirect]_vars

----------------------------------------------------------------------------
(* Checks during which the clock advances between two clock reads *)

\* the ticks the clock advances between two consecutive clock reads of a call
ClockDrifts == { 0, 1 }

MemDriftCheck ==
    /\ MemCheckOf(scope, ClockDrifts)
    /\ now' <= MaxTime
    /\ Observed
    /\ UNCHANGED <<threads, shadow, script, probe>>

DbDriftCheck ==
    /\ DbCheckOf(scope, ClockDrifts)
    /\ now' <= MaxTime
    /\ Len(db_logs') <= MaxDbLogs
    /\ Observed
    /\ UNCHANGED <<threads, shadow, script, probe>>

InitDrift ==
    /\ InitConfig(Quotas)
    /\ InitStores
    /\ threads = << >>
    /\ other = scope

NextDrift == Tick \/ MemDriftCheck \/ DbDriftCheck

SpecDrift == InitDrift /\ [][NextDrift]_vars

----------------------------------------------------------------------------
(* Statistics calls between checks of the database limiter *)

\* the arguments get_usage_stats is called with
UsageUserIds == UserIds
UsageEndpoints == { None, Some(EndpointData) }
UsageHours == { 0, 1 }

\* the same check in the run without statistics calls
ShadowDbCheck(sc) ==
    LET q == StateQuery(shadow.rows, sc.api_key, sc.user_id, sc.endpoint)
        d == db_check_rate_limit(shadow.rows, shadow.dblogs, api_keys_db, sc.api_key,
                                 sc.user_id, sc.endpoint, "GET",
                                 IF q = { } THEN NoRow ELSE CHOOSE x \in q : TRUE,
                                 now, now)
    IN  [ shadow EXCEPT !.rows = d.rows, !.dblogs = d.logs, !.result = d.result ]

\* a check for scope or for other, made as well in the run without statistics
\* calls; MaxStatsChecks checks are made
DbStatsCheck ==
    /\ script < MaxStatsChecks
    /\ script' = script + 1
    /\ \E sc \in { scope, other } :
         /\ DbCheckOf(sc, { 0 })
         /\ shadow' = ShadowDbCheck(sc)
    /\ Len(db_logs') <= MaxDbLogs
    /\ UNCHANGED <<gwin, recent, threads, probe>>

\* get_usage_stats(api_key, user_id, endpoint, hours)
UsageStatsCall ==
    /\ backend = "database"
    /\ \E k \in ApiKeys, u \in UsageUserIds, e \in UsageEndpoints, h \in UsageHours :
        \E rate_state \in IF UsageStateQuery(db_states, k, u, e) = { } THEN { NoRow }
                          ELSE UsageStateQuery(db_states, k, u, e) :
        LET r == get_usage_stats(db_states, db_logs, api_keys_db, k, u, e, h, rate_state, now)
        IN  /\ db_states' = r.rows
            /\ db_logs' = r.logs
            /\ last' = [ NoCall EXCEPT !.op = "usage_stats", !.first = now, !.tlast = now,
                                       !.sc = [ api_key |-> k, user_id |-> u, endpoint |-> e,
                                                hours |-> h, rate_state |-> rate_state ],
                                       !.stats = r.result ]
    /\ UNCHANGED <<backend, scope, other, api_keys_db, now, rate_limits_store, heap,
                   usage_logs, gwin, recent, threads, shadow, script, probe>>

\* get_system_stats()
SystemStatsCall ==
    /\ backend = "database"
    /\ LET r == get_system_stats(db_states, db_logs, api_keys_db, now)
       IN  /\ db_states' = r.rows
           /\ db_logs' = r.logs
           /\ last' = [ NoCall EXCEPT !.op = "system_stats", !.first = now, !.tlast = now,
                                      !.stats = r.result ]
    /\ UNCHANGED <<backend, scope, other, api_keys_db, now, rate_limits_store, heap,
                   usage_logs, gwin, recent, threads, shadow, script, probe>>

\* scope is a user of the credential on one endpoint; other is the credential
\* without a sub-identity on a second endpoint
InitDbStats ==
    /\ InitConfig({ q \in Quotas : q.max_requests = 1 })
    /\ backend = "database"
    /\ scope.user_id = Some(UserU)
    /\ InitStores
    /\ threads = << >>
    /\ other = ScopeOf(scope.api_key, None, EndpointData)

NextDbStats == Tick \/ DbStatsCheck \/ UsageStatsCall \/ SystemStatsCall

SpecDbStats == InitDbStats /\ [][NextDbStats]_vars

----------------------------------------------------------------------------
(* The ledger of the in-memory limiter against the sequence of the calls *)

\* a check of the scope of the run; shadow.logs is the sequence of all calls
\* made so far, each with what it was called with and what it returned;
\* MaxLedgerCalls calls are made
LedgerCheck ==
    /\ script < MaxLedgerCalls
    /\ script' = script + 1
    /\ MemCheckOf(scope, { 0 })
    /\ shadow' = [ shadow EXCEPT !.logs =
                      Append(@, LogEntry(last'.tlast, scope.api_key, scope.user_id,
                                         scope.endpoint, last'.result.allowed,
                                         last'.result.remaining, last'.result.retry_after,
                                         last'.after)) ]
    /\ UNCHANGED <<gwin, recent, threads, probe>>

InitLedger ==
    /\ InitConfig(Quotas)
    /\ backend = "memory"
    /\ scope.user_id = None
    /\ InitStores
    /\ threads = << >>
    /\ other = scope

NextLedger == Tick \/ LedgerCheck

SpecLedger == InitLedger /\ [][NextLedger]_vars

----------------------------------------------------------------------------
(* Checks of the database limiter with a storage that can fail a commit *)

\* a check of the scope of the run, reading one clock value throughout
DbFailCheck ==
    /\ backend = "database"
    /\ \E fail \in CommitFailures :
       \E found \in IF StateQuery(db_states, scope.api_key, scope.user_id, scope.endpoint) = { }
                     THEN { NoRow }
                     ELSE StateQuery(db_states, scope.api_key, scope.user_id, scope.endpoint) :
        LET r    == db_check_rate_limit_failing(db_states, db_logs, api_keys_db,
                                                scope.api_key, scope.user_id, scope.endpoint,
                                                "GET", found, now, now, fail)
            own  == OwnRows(db_states, scope)
            own2 == OwnRows(r.rows, scope)
        IN  /\ Len(r.logs) <= MaxDbLogs
            /\ db_states' = r.rows
            /\ db_logs' = r.logs
            /\ last' = [ NoCall EXCEPT
                            !.op = "check", !.sc = scope, !.first = now, !.tadmit = now,
                            !.tlast = now, !.isNew = (found = NoRow), !.had = (own # { }),
                            !.before = IF own = { } THEN NoRow ELSE CHOOSE x \in own : TRUE,
                            !.after = IF own2 = { } THEN NoRow ELSE CHOOSE x \in own2 : TRUE,
                            !.result = r.result ]
    /\ UNCHANGED <<backend, scope, other, api_keys_db, now, rate_limits_store, heap,
                   usage_logs, gwin, recent, threads, shadow, script, probe>>

InitDbFail ==
    /\ InitConfig(Quotas)
    /\ backend = "database"
    /\ scope.user_id # Some(<< >>)
    /\ InitStores
    /\ threads = << >>
    /\ other = scope

NextDbFail == Tick \/ DbFailCheck

SpecDbFail == InitDbFail /\ [][NextDbFail]_vars

----------------------------------------------------------------------------
(* Checks of both limiters and statistics calls of the in-memory limiter *)

InitCounters ==
    /\ InitConfig(Quotas)
    /\ InitStores
    /\ threads = << >>
    /\ other = scope
    /\ scope.user_id = Some(UserU)

NextCounters == Tick \/ MemCheck \/ DbCheck \/ StatsCall

SpecCounters == InitCounters /\ [][NextCounters]_vars

----------------------------------------------------------------------------
(* Sequential checks of one scope key followed by statistics calls *)

InitTotals ==
    /\ InitConfig({ q \in Quotas : q.max_requests = 1 })
    /\ backend = "memory"
    /\ scope.user_id = None
    /\ InitStores
    /\ threads = << >>
    /\ other = scope

NextTotals == Tick \/ LedgerCheck \/ StatsCall

SpecTotals == InitTotals /\ [][NextTotals]_vars

----------------------------------------------------------------------------
(* Checks of several credentials with resets and statistics calls *)

\* the scope descriptors of the checks: two credentials, and a sub-identity
\* that is spelled like the first credential
AdminKeys == { KeyA, KeyB }
AdminScopes ==
    { ScopeOf(KeyA, Some(UserU), EndpointApi),
      ScopeOf(KeyB, Some(UserU), EndpointApi),
      ScopeOf(KeyB, Some(KeyA), EndpointApi) }
AdminArgs == { None, Some(KeyA), Some(KeyB) }

\* the scope descriptor a key of the store was created for
ScopeOfKey(key) ==
    CHOOSE sc \in AdminScopes :
        get_rate_limit_key(sc.api_key, sc.user_id, sc.endpoint, "user") = key

\* a check of one of the scope descriptors
AdminCheck ==
    /\ script < MaxAdminCalls
    /\ script' = script + 1
    /\ \E sc \in AdminScopes : MemCheckOf(sc, { 0 })
    /\ UNCHANGED <<gwin, recent, threads, shadow, probe>>

\* reset_rate_limits(api_key)
ResetCall ==
    /\ backend = "memory"
    /\ rate_limits_store # << >>
    /\ \E a \in AdminArgs :
        /\ rate_limits_store' = reset_rate_limits(rate_limits_store, a)
        /\ last' = [ NoCall EXCEPT !.op = "reset", !.sc = [ api_key |-> a ],
                                   !.first = now, !.tlast = now ]
    /\ UNCHANGED <<backend, scope, api_keys_db, now, heap, usage_logs, db_states,
                   db_logs, gwin, recent, threads, shadow, script, other, probe>>

InitAdmin ==
    /\ backend = "memory"
    /\ scope \in AdminScopes
    /\ other = scope
    /\ \E q \in Quotas : api_keys_db = [ k \in AdminKeys |-> q ]
    /\ recent = << >>
    /\ InitStores
    /\ threads = << >>

NextAdmin == AdminCheck \/ ResetCall

SpecAdmin == InitAdmin /\ [][NextAdmin]_vars

----------------------------------------------------------------------------
(* Checks of several credentials with statistics calls *)

\* get_rate_limit_stats(api_key) for one of the credentials
AdminStats ==
    /\ backend = "memory"
    /\ \E k \in AdminKeys :
        LET r == get_rate_limit_stats(rate_limits_store, heap, usage_logs, k, now)
        IN  /\ heap' = r.heap
            /\ last' = [ NoCall EXCEPT !.op = "stats", !.first = now, !.tlast = now,
                                       !.stats = r.result ]
    /\ UNCHANGED <<backend, scope, api_keys_db, now, rate_limits_store, usage_logs,
                   db_states, db_logs, gwin, recent, threads, shadow, script, other, probe>>

InitAdminStats ==
    /\ InitAdmin
    /\ api_keys_db[KeyA].max_requests = 1
    /\ api_keys_db[KeyA].window_seconds = 1

\* the clock of the runs with statistics calls
AdminTick == now < MaxAdminTime /\ Tick

NextAdminStats == AdminTick \/ AdminCheck \/ AdminStats

SpecAdminStats == InitAdminStats /\ [][NextAdminStats]_vars

----------------------------------------------------------------------------
(* Checks for two scope descriptors that differ in any component *)

\* a check for scope or for other, reading one clock value throughout
FrameCheck ==
    /\ script < MaxLedgerCalls
    /\ script' = script + 1
    /\ \E sc \in { scope, other } : MemCheckOf(sc, { 0 }) \/ DbCheckOf(sc, { 0 })
    /\ Len(db_logs') <= MaxDbLogs
    /\ UNCHANGED <<gwin, recent, shadow, threads, probe>>

\* two registered credentials with one quota; other differs from scope in the
\* api_key, the sub-identity or the endpoint
InitFrame ==
    /\ backend \in { "memory", "database" }
    /\ scope \in { ScopeOf(KeyA, u, EndpointApi) : u \in UserIds }
    /\ other \in { ScopeOf(k, u, e) : k \in AdminKeys, u \in UserIds, e \in EndpointArgs }
    /\ other # scope
    /\ \E q \in { q \in Quotas : q.window_seconds = 1 } :
           api_keys_db = [ k \in AdminKeys |-> q ]
    /\ recent = << >>
    /\ InitStores
    /\ threads = << >>

NextFrame == AdminTick \/ FrameCheck

SpecFrame == InitFrame /\ [][NextFrame]_vars

----------------------------------------------------------------------------
(* app/limiter.py: get_all_usage_logs; app/main.py: GET /logs *)

\* the position a Python slice bound i denotes in a list of n elements
PyBound(i, n) == IF i < 0 THEN Max(n + i, 0) ELSE Min(i, n)

\* seq[start:stop]
PySlice(seq, start, stop) ==
    SubSeq(seq, PyBound(start, Len(seq)) + 1, PyBound(stop, Len(seq)))

\* get_all_usage_logs(limit): usage_logs[-limit:] if len(usage_logs) > limit
\* else usage_logs; -0 is 0, so the slice of limit 0 starts at the first entry
get_all_usage_logs(logs, limit) ==
    IF Len(logs) > limit THEN PySlice(logs, 0 - limit, Len(logs)) ELSE logs

\* the ledger with the position of each entry
Numbered(logs) == [ i \in 1 .. Len(logs) |-> [ pos |-> i, entry |-> logs[i] ] ]

\* GET /logs: the entries of the page, their positions in the ledger, and total
get_usage_logs(logs, limit, page, api_key) ==
    LET all_logs  == get_all_usage_logs(Numbered(logs), limit * page)
        mine(x)   == x.entry.api_key = api_key[1]
        filtered  == IF Truthy(api_key) THEN SelectSeq(all_logs, mine) ELSE all_logs
        start_idx == (page - 1) * limit
        end_idx   == start_idx + limit
        paginated == PySlice(filtered, start_idx, end_idx)
    IN  [ logs  |-> [ i \in 1 .. Len(paginated) |-> paginated[i].entry ],
          pos   |-> [ i \in 1 .. Len(paginated) |-> paginated[i].pos ],
          total |-> Len(filtered),
          page  |-> page,
          limit |-> limit ]

\* no page of the ledger has been fetched
NoPages == [ op |-> "pages", limit |-> 0, got |-> << >> ]

\* a check of the scope of the run; the pages fetched before it are dropped
LogsCheck ==
    /\ script < MaxLedgerCalls
    /\ script' = script + 1
    /\ MemCheckOf(scope, { 0 })
    /\ probe' = NoPages
    /\ UNCHANGED <<gwin, recent, threads, shadow>>

\* get_all_usage_logs(limit)
AllLogsCall ==
    /\ \E limit \in 0 .. MaxLimit :
         last' = [ NoCall EXCEPT !.op = "logs", !.first = limit,
                                 !.stats = get_all_usage_logs(usage_logs, limit) ]
    /\ UNCHANGED <<backend, scope, other, api_keys_db, now, rate_limits_store, heap,
                   usage_logs, db_states, db_logs, gwin, recent, threads, shadow, script,
                   probe>>

\* GET /logs?limit=..&page=..; the pages fetched with one limit since the
\* ledger last changed are kept
PageCall ==
    /\ \E limit \in 1 .. MaxLimit, page \in 1 .. MaxPage :
         LET r    == get_usage_logs(usage_logs, limit, page, None)
             got  == IF probe.limit = limit THEN probe.got ELSE << >>
         IN  /\ probe' = [ op |-> "pages", limit |-> limit,
                           got |-> [ p \in DOMAIN got \cup { page } |->
                                       IF p = page THEN r.pos ELSE got[p] ] ]
             /\ last' = [ NoCall EXCEPT !.op = "page", !.first = page, !.stats = r ]
    /\ UNCHANGED <<backend, scope, other, api_keys_db, now, rate_limits_store, heap,
                   usage_logs, db_states, db_logs, gwin, recent, threads, shadow, script>>

InitLogs ==
    /\ InitConfig({ q \in Quotas : q.window_seconds = 1 })
    /\ backend = "memory"
    /\ scope.user_id = None
    /\ now = 0
    /\ rate_limits_store = << >>
    /\ heap = << >>
    /\ usage_logs = << >>
    /\ db_states = { }
    /\ db_logs = << >>
    /\ last = NoCall
    /\ gwin = NoWindow
    /\ shadow = NoShadow
    /\ script = 0
    /\ probe = NoPages
    /\ threads = << >>
    /\ other = scope

NextLogs == LogsCheck \/ AllLogsCall \/ PageCall

SpecLogs == InitLogs /\ [][NextLogs]_vars

----------------------------------------------------------------------------
(* test-website/server.py: the contact form behind /check-limit-ip *)

\* app/main_db.py check_limit_ip: the HTTP answer for a result of the limiter;
\* an HTTPException is answered with its status and a body without 'allowed'
check_limit_ip(result) ==
    IF result.status = "ok"
    THEN [ code |-> 200, has_allowed |-> TRUE, allowed |-> result.allowed,
           retry_after |-> IF result.retry_after = Absent THEN 0 ELSE result.retry_after ]
    ELSE [ code |-> IF result.status \in { "Invalid API key", "API key is inactive" }
                    THEN 401 ELSE 500,
           has_allowed |-> FALSE, allowed |-> FALSE, retry_after |-> Absent ]

\* the answer of a service that could not be reached
NoAnswer == [ code |-> 0, has_allowed |-> FALSE, allowed |-> FALSE, retry_after |-> Absent ]

site_check_rate_limit_fail_closed(reached, answer) ==
    IF ~reached
    THEN [ has_allowed |-> TRUE, allowed |-> FALSE, retry_after |-> Absent ]
    ELSE [ has_allowed |-> answer.has_allowed, allowed |-> answer.allowed,
           retry_after |-> answer.retry_after ]

\* RateLimitedHandler.check_rate_limit: the dict made of the answer
site_check_rate_limit(reached, answer) ==
    IF ~reached
    THEN [ has_allowed |-> TRUE, allowed |-> TRUE, retry_after |-> Absent ]
    ELSE IF answer.code = 429
    THEN [ has_allowed |-> TRUE, allowed |-> FALSE,
           retry_after |-> IF answer.retry_after = Absent THEN DefaultRetryAfter
                           ELSE answer.retry_after ]
    ELSE [ has_allowed |-> answer.has_allowed, allowed |-> answer.allowed,
           retry_after |-> answer.retry_after ]

\* RateLimitedHandler.handle_contact_form: the response to the browser;
\* form_ok says that the submission has a Content-Length and a readable body
handle_contact_form(reached, answer, form_ok) ==
    LET r == site_check_rate_limit(reached, answer) IN
    IF ~(IF r.has_allowed THEN r.allowed ELSE TRUE)
    THEN [ status |-> 429, success |-> FALSE,
           retry_after |-> IF r.retry_after = Absent THEN DefaultRetryAfter
                           ELSE r.retry_after ]
    ELSE IF ~form_ok
    THEN [ status |-> 500, success |-> FALSE, retry_after |-> Absent ]
    ELSE [ status |-> 200, success |-> TRUE, retry_after |-> Absent ]

\* one submission of the contact form: the service, when reached, checks the
\* limit of the credential of the site
ContactForm ==
    /\ \E form_ok \in BOOLEAN :
         \/ /\ \E sc \in { scope, other } : DbCheckOf(sc, { 0 })
            /\ Len(db_logs') <= MaxDbLogs
            /\ probe' = [ op |-> "contact", reached |-> TRUE, form_ok |-> form_ok,
                          answer |-> check_limit_ip(last'.result),
                          response |-> handle_contact_form(TRUE,
                                           check_limit_ip(last'.result), form_ok) ]
         \/ /\ probe' = [ op |-> "contact", reached |-> FALSE, form_ok |-> form_ok,
                          answer |-> NoAnswer,
                          response |-> handle_contact_form(FALSE, NoAnswer, form_ok) ]
            /\ last' = NoCall
            /\ UNCHANGED <<backend, scope, other, api_keys_db, now, rate_limits_store,
                           heap, usage_logs, db_states, db_logs>>
    /\ UNCHANGED <<gwin, recent, threads, shadow, script>>

\* the service runs the database limiter; the site uses the credential of
\* scope, registered, or that of other, which is not registered
InitSite ==
    /\ backend = "database"
    /\ scope \in { ScopeOf(KeyA, Some(UserU), e) : e \in Endpoints }
    /\ other = ScopeOf(KeyUnknown, scope.user_id, scope.endpoint)
    /\ api_keys_db \in [ { KeyA } -> Quotas ]
    /\ recent = << >>
    /\ InitStores
    /\ threads = << >>

NextSite == Tick \/ ContactForm

SpecSite == InitSite /\ [][NextSite]_vars

----------------------------------------------------------------------------
(* app/limiter.py: get_rate_limit_key applied to two scope triples *)

\* non-empty strings, with and without the separator of the key
TripleStrings ==
    { << "a" >>, << "b" >>, << "a", ":", "b" >>, << "b", ":", "a" >> }
TripleScopes ==
    { ScopeOf(k, Some(u), e) : k \in TripleStrings, u \in TripleStrings,
                               e \in EndpointArgs }

\* two calls of get_rate_limit_key with limit_type 'user'
TripleCall ==
    /\ \E a \in TripleScopes, b \in TripleScopes :
         probe' = [ op |-> "triple", sc |-> << a, b >>,
                    key |-> << get_rate_limit_key(a.api_key, a.user_id, a.endpoint, "user"),
                               get_rate_limit_key(b.api_key, b.user_id, b.endpoint, "user") >> ]
    /\ UNCHANGED <<backend, scope, other, api_keys_db, now, rate_limits_store, heap,
                   usage_logs, db_states, db_logs, last, gwin, recent, threads, shadow,
                   script>>

NextTriples == TripleCall

SpecTriples == InitKeys /\ [][NextTriples]_vars

----------------------------------------------------------------------------
(* Concurrent checks of one fresh scope key *)

\* a call that has not started
NewThread ==
    [ pc |-> "start", ref |-> 0, tmp |-> 0, found |-> NoRow, t |-> 0,
      result |-> [ status |-> "none", allowed |-> FALSE, remaining |-> 0,
                   retry_after |-> 0 ] ]

ScopeKey == get_rate_limit_key(scope.api_key, scope.user_id, scope.endpoint, "user")

\* the variables no step of a concurrent call changes
RaceFrame ==
    UNCHANGED <<backend, scope, other, api_keys_db, now, last, gwin, recent, shadow, script,
                probe>>

\* check_rate_limit, thread i:  if rate_limit_key not in rate_limits_store
MemStart(i) ==
    /\ backend = "memory"
    /\ threads[i].pc = "start"
    /\ threads' = [ threads EXCEPT ![i].pc =
                       IF ScopeKey \notin DOMAIN rate_limits_store THEN "create" ELSE "fetch" ]
    /\ UNCHANGED <<rate_limits_store, heap, usage_logs, db_states, db_logs>>
    /\ RaceFrame

\* rate_limits_store[rate_limit_key] = RateLimitBucket(max_requests, window_seconds)
MemCreate(i) ==
    /\ backend = "memory"
    /\ threads[i].pc = "create"
    /\ LET ref == NewRef(heap)
           cfg == api_keys_db[scope.api_key]
       IN  /\ heap' = [ r \in DOMAIN heap \cup { ref } |->
                          IF r = ref
                          THEN RateLimitBucket(cfg.max_requests, cfg.window_seconds, now)
                          ELSE heap[r] ]
           /\ rate_limits_store' =
                  [ k \in DOMAIN rate_limits_store \cup { ScopeKey } |->
                      IF k = ScopeKey THEN ref ELSE rate_limits_store[k] ]
    /\ threads' = [ threads EXCEPT ![i].pc = "fetch" ]
    /\ UNCHANGED <<usage_logs, db_states, db_logs>>
    /\ RaceFrame

\* bucket = rate_limits_store[rate_limit_key]
MemFetch(i) ==
    /\ backend = "memory"
    /\ threads[i].pc = "fetch"
    /\ threads' = [ threads EXCEPT ![i].pc = "test", ![i].ref = rate_limits_store[ScopeKey] ]
    /\ UNCHANGED <<rate_limits_store, heap, usage_logs, db_states, db_logs>>
    /\ RaceFrame

\* consume: reset_if_new_window, then the test of requests_count + tokens
\* against max_requests; when the test fails consume returns False and the
\* call runs to its end
MemTest(i) ==
    /\ backend = "memory"
    /\ threads[i].pc = "test"
    /\ LET ref == threads[i].ref
           b1  == reset_if_new_window(heap[ref], now)
           hp1 == [ heap EXCEPT ![ref] = b1 ]
           end == check_rate_limit_tail(hp1, usage_logs, ref, FALSE, scope.api_key,
                                        scope.user_id, scope.endpoint, now, now)
       IN  IF b1.requests_count + 1 <= b1.max_requests
           THEN /\ heap' = hp1
                /\ threads' = [ threads EXCEPT ![i].pc = "load" ]
                /\ UNCHANGED usage_logs
           ELSE /\ heap' = end.heap
                /\ usage_logs' = end.logs
                /\ threads' = [ threads EXCEPT ![i].pc = "done", ![i].result = end.result ]
    /\ UNCHANGED <<rate_limits_store, db_states, db_logs>>
    /\ RaceFrame

\* self.requests_count += tokens: the read of requests_count
MemLoad(i) ==
    /\ backend = "memory"
    /\ threads[i].pc = "load"
    /\ threads' = [ threads EXCEPT ![i].pc = "store",
                                   ![i].tmp = heap[threads[i].ref].requests_count ]
    /\ UNCHANGED <<rate_limits_store, heap, usage_logs, db_states, db_logs>>
    /\ RaceFrame

\* self.requests_count += tokens: the write; consume returns True and the call
\* runs to its end
MemStore(i) ==
    /\ backend = "memory"
    /\ threads[i].pc = "store"
    /\ LET ref == threads[i].ref
           hp1 == [ heap EXCEPT ![ref].requests_count = threads[i].tmp + 1 ]
           end == check_rate_limit_tail(hp1, usage_logs, ref, TRUE, scope.api_key,
                                        scope.user_id, scope.endpoint, now, now)
       IN  /\ heap' = end.heap
           /\ usage_logs' = end.logs
           /\ threads' = [ threads EXCEPT ![i].pc = "done", ![i].result = end.result ]
    /\ UNCHANGED <<rate_limits_store, db_states, db_logs>>
    /\ RaceFrame

\* DatabaseRateLimiter.check_rate_limit, session i: verify_api_key, query.first()
\* and the read of the clock
DbBegin(i) ==
    /\ backend = "database"
    /\ threads[i].pc = "start"
    /\ \E found \in IF StateQuery(db_states, scope.api_key, scope.user_id,
                                   scope.endpoint) = { }
                     THEN { NoRow }
                     ELSE StateQuery(db_states, scope.api_key, scope.user_id,
                                     scope.endpoint) :
          threads' = [ threads EXCEPT ![i].pc = "write", ![i].found = found, ![i].t = now ]
    /\ UNCHANGED <<rate_limits_store, heap, usage_logs, db_states, db_logs>>
    /\ RaceFrame

\* the decision on the object loaded, the write, db.commit(), _log_usage and
\* the commit of get_db_session
DbCommit(i) ==
    /\ backend = "database"
    /\ threads[i].pc = "write"
    /\ LET r == db_check_rate_limit(db_states, db_logs, api_keys_db, scope.api_key,
                                    scope.user_id, scope.endpoint, "GET",
                                    threads[i].found, threads[i].t, now)
       IN  /\ db_states' = r.rows
           /\ db_logs' = r.logs
           /\ threads' = [ threads EXCEPT ![i].pc = "done", ![i].result = r.result ]
    /\ UNCHANGED <<rate_limits_store, heap, usage_logs>>
    /\ RaceFrame

\* max_requests + K calls for one fresh scope key, K up to MaxExtra
InitRace ==
    /\ InitConfig(Quotas)
    /\ InitStores
    /\ other = scope
    /\ \E k \in 0 .. MaxExtra :
          threads = [ i \in 1 .. (api_keys_db[scope.api_key].max_requests + k) |-> NewThread ]

InitMemRace == InitRace /\ backend = "memory"

NextMemRace ==
    \/ \E i \in DOMAIN threads : MemStart(i)
    \/ \E i \in DOMAIN threads : MemCreate(i)
    \/ \E i \in DOMAIN threads : MemFetch(i)
    \/ \E i \in DOMAIN threads : MemTest(i)
    \/ \E i \in DOMAIN threads : MemLoad(i)
    \/ \E i \in DOMAIN threads : MemStore(i)

SpecMemRace == InitMemRace /\ [][NextMemRace]_vars

InitDbRace == InitRace /\ backend = "database"

NextDbRace ==
    \/ \E i \in DOMAIN threads : DbBegin(i)
    \/ \E i \in DOMAIN threads : DbCommit(i)

SpecDbRace == InitDbRace /\ [][NextDbRace]_vars

----------------------------------------------------------------------------
(* Properties of sequential checks against one scope key (Spec) *)

Cfg == api_keys_db[scope.api_key]
WindowTicks == Cfg.window_seconds * TicksPerSec
IsCheck == last.op = "check"
IsDecision == last.result.status = "ok"
\* the call read one clock value throughout
Instant == last.tlast = last.first
\* the sub-identity is absent or a non-empty string
PlainSubIdentity == scope.user_id # Some(<< >>)

\* C1: for one scope key with a fixed quota, the i-th check of a window, for
\* every i <= max_requests, is allowed and reports remaining = max_requests - i,
\* in the in-memory limiter and in the database limiter.
C1_WithinQuotaAllowed ==
    ( /\ IsCheck
      /\ gwin.ok
      /\ gwin.calls <= Cfg.max_requests )
    => /\ IsDecision
       /\ last.result.allowed
       /\ last.result.remaining = Cfg.max_requests - gwin.calls

\* C1 where the code does satisfy it: every scope key of the in-memory limiter,
\* and the scope keys of the database limiter whose sub-identity is absent or
\* non-empty.
C1_ExceptEmptySubIdentity ==
    (backend = "database" => PlainSubIdentity) => C1_WithinQuotaAllowed

C1_Reached ==
    /\ IsCheck
    /\ Cfg.max_requests = MaxRequests
    /\ gwin.calls = Cfg.max_requests
    /\ gwin.start > 0
    /\ last.result.allowed
    /\ last.result.remaining = 0

C3_DbSaturatedDenied ==
    ( /\ IsCheck
      /\ backend = "database"
      /\ ~last.isNew
      /\ last.before.current_requests >= Cfg.max_requests
      /\ last.first - last.before.window_start < WindowTicks )
    => /\ IsDecision
       /\ ~last.result.allowed
       /\ last.result.remaining = 0
       /\ last.result.retry_after >= 1

\* the counter of the scope key: requests_count of its bucket, current_requests of its row
CountOf(st) == IF backend = "memory" THEN st.requests_count ELSE st.current_requests

\* C6: a check made window_seconds or more after window_start (exactly
\* window_seconds included) on a scope key that has state starts a fresh
\* window: allowed, counter 1, window_start = now, remaining = max_requests - 1,
\* whatever the count was; in both limiters.
C6_Rollover ==
    ( /\ IsCheck
      /\ last.had
      /\ Instant
      /\ last.first - last.before.window_start >= WindowTicks )
    => /\ IsDecision
       /\ last.result.allowed
       /\ CountOf(last.after) = 1
       /\ last.after.window_start = last.first
       /\ last.result.remaining = Cfg.max_requests - 1

\* C6 where the code does satisfy it: every scope key of the in-memory limiter,
\* and the scope keys of the database limiter whose sub-identity is absent or
\* non-empty.
C6_ExceptEmptySubIdentity ==
    (backend = "database" => PlainSubIdentity) => C6_Rollover

C6_Reached ==
    /\ IsCheck
    /\ last.had
    /\ CountOf(last.before) = Cfg.max_requests
    /\ last.first - last.before.window_start = WindowTicks
    /\ CountOf(last.after) = 1

----------------------------------------------------------------------------
(* Properties of statistics calls (SpecStats) *)

C10_StatsReadOnly ==
    last.op = "stats" =>
        /\ rate_limits_store = shadow.store
        /\ heap = shadow.heap
        /\ usage_logs = shadow.logs

----------------------------------------------------------------------------
(* Properties of the scenario (SpecScenario) *)

\* C7: with max_requests = 10 and window_seconds = 60 on a fresh scope key, 10
\* checks at t = 0 are allowed with remaining 9, 8, ..., 0; an 11th check at
\* t = 5 is denied with retry_after in [55, 60]; a 12th check at t = 61 is
\* allowed with remaining = 9.
C7_Scenario ==
    ( IsCheck /\ script >= 1 ) =>
        /\ IsDecision
        /\ script <= 10 => ( last.result.allowed /\ last.result.remaining = 10 - script )
        /\ script = 11 => ( /\ ~last.result.allowed
                            /\ last.result.retry_after >= 55
                            /\ last.result.retry_after <= 60 )
        /\ script = 12 => ( last.result.allowed /\ last.result.remaining = 9 )

\* C7 where the code does satisfy it: every scope key of the in-memory limiter,
\* and the scope keys of the database limiter whose sub-identity is absent or
\* non-empty.
C7_ExceptEmptySubIdentity ==
    (backend = "database" => PlainSubIdentity) => C7_Scenario

C7_Reached ==
    /\ script = 12
    /\ now = 61 * TicksPerSec
    /\ IsDecision
    /\ last.result.allowed
    /\ last.result.remaining = 9

----------------------------------------------------------------------------
(* Properties of concurrent checks (SpecMemRace, SpecDbRace) *)

AllDone == threads # << >> /\ \A i \in DOMAIN threads : threads[i].pc = "done"
Admitted ==
    Cardinality({ i \in DOMAIN threads :
                    threads[i].result.status = "ok" /\ threads[i].result.allowed })
Denied ==
    Cardinality({ i \in DOMAIN threads :
                    threads[i].result.status = "ok" /\ ~threads[i].result.allowed })

\* C4: in the in-memory limiter, of max_requests + K concurrent checks of one
\* fresh scope key exactly max_requests are admitted and exactly K denied,
\* under every interleaving, and requests_count never exceeds max_requests.
C4_ExactlyMaxAdmitted ==
    backend = "memory" =>
        /\ \A r \in DOMAIN heap : heap[r].requests_count <= heap[r].max_requests
        /\ AllDone => /\ Admitted = Cfg.max_requests
                      /\ Denied = Len(threads) - Cfg.max_requests

\* C5: in the database limiter, of max_requests + K concurrent check
\* transactions of one fresh triple exactly max_requests are admitted and
\* exactly K denied, under every interleaving; no increment of an admitted
\* request is lost and current_requests never exceeds max_requests.
C5_DbExactlyMaxAdmitted ==
    backend = "database" =>
        /\ \A r \in db_states : r.current_requests <= Cfg.max_requests
        /\ AllDone => /\ Admitted = Cfg.max_requests
                      /\ Denied = Len(threads) - Cfg.max_requests
                      /\ \E r \in db_states : r.current_requests = Admitted

----------------------------------------------------------------------------
(* Properties of checks for two sub-identities (SpecTwo) *)

\* the checks for other leave the results of the checks for scope as they are
\* in the run without them
Independent == ( IsCheck /\ last.sc = scope ) => last.result = shadow.result

\* C11: two checks with the same api_key and endpoint but two distinct
\* sub-identity values never use the same counter: the remaining quota seen for
\* one is unaffected by the checks made for the other, in both limiters.
C11_DistinctSubIdentities ==
    ( scope.user_id # None /\ other.user_id # None ) => Independent

\* C12: a check without sub-identity uses a counter that no check with a
\* sub-identity uses, whatever string the sub-identity is.
C12_AbsentSentinel ==
    ( scope.user_id = None \/ other.user_id = None ) => Independent

\* C13: in the in-memory limiter every check appends exactly one entry to
\* usage_logs, and that entry carries the allowed, remaining and retry_after
\* values the check returned (the oldest entry is dropped once the ledger is
\* longer than its retention).
C13_OneLedgerEntry ==
    [][ ( backend = "memory" /\ now' = now ) =>
          /\ Len(usage_logs') > 0
          /\ LET e == usage_logs'[Len(usage_logs')] IN
                /\ usage_logs' = IF Len(usage_logs) < MaxUsageLogs
                                     THEN Append(usage_logs, e)
                                     ELSE Tail(Append(usage_logs, e))
                /\ e.allowed = last'.result.allowed
                /\ e.remaining = last'.result.remaining
                /\ e.retry_after = last'.result.retry_after ]_vars

\* C13: a denied check was made while the ledger was at its retention, and its
\* entry is the newest one
C13_Witness ==
    /\ IsCheck /\ backend = "memory"
    /\ ~last.result.allowed /\ last.result.retry_after >= 1
    /\ Len(usage_logs) = MaxUsageLogs
    /\ usage_logs[Len(usage_logs)].allowed = FALSE
    /\ usage_logs[Len(usage_logs)].retry_after = last.result.retry_after
    /\ usage_logs[1].allowed

\* C14: in the database limiter every check made with a valid credential that
\* returns a decision, allowed or denied, writes exactly one DBRateLimitLog row.
C14_OneLogRow ==
    [][ ( backend = "database" /\ now' = now /\ last'.op = "check"
          /\ last'.result.status = "ok" ) =>
          /\ Len(db_logs') = Len(db_logs) + 1
          /\ SubSeq(db_logs', 1, Len(db_logs)) = db_logs ]_vars

\* C15: a denied check made at time t that reports retry_after = r has
\* t + r >= window_start + window_seconds, in both limiters (the reported wait
\* never ends before the window does).
C15_NeverUnderReports ==
    ( IsCheck /\ IsDecision /\ ~last.result.allowed ) =>
        last.first + last.result.retry_after * TicksPerSec
            >= last.after.window_start + WindowTicks

\* C18: a check of the database limiter made with a valid credential returns a
\* decision and never raises, whatever the sub-identity (the empty string
\* included).
C18_DbNeverRaises ==
    ( IsCheck /\ backend = "database" ) => IsDecision

\* C19: check_global_rate_limit admits at most global_limit calls for an
\* endpoint in the 60 seconds that follow the first call of the minute, and its
\* counter is not reset before those 60 seconds have passed.
C19_GlobalPerMinute ==
    ( last.op = "global" /\ last.first - gwin.start < SecondsPerMinute * TicksPerSec ) =>
        /\ gwin.admitted <= Bucket(global_key(scope.endpoint)).max_requests
        /\ Bucket(global_key(scope.endpoint)).window_start = gwin.start

\* C20: for limit_type 'ip' and for limit_type 'user', two calls of
\* get_rate_limit_key that differ in api_key only (same sub-identity, same
\* endpoint) return different keys.
C20_KeyDependsOnApiKey ==
    ( probe.op = "key" /\ probe.limit_type \in { "ip", "user" }
      /\ probe.api_key[1] # probe.api_key[2] ) =>
        probe.key[1] # probe.key[2]

\* the credential of the check just made is unknown or inactive
BadCredential(sc) ==
    sc.api_key \notin DOMAIN api_keys_db \/ ~api_keys_db[sc.api_key].is_active

\* C17: a check made with an unknown or inactive API key ends in a credential
\* error, never in an allow or deny decision, and it creates no counter, changes
\* no existing counter and appends no ledger entry, on the in-memory path and
\* in the database limiter.
C17_CredentialError ==
    [][ ( last'.op = "check" /\ BadCredential(last'.sc) ) =>
          /\ last'.result.status \in { "Invalid API key", "API key is inactive" }
          /\ UNCHANGED <<rate_limits_store, heap, usage_logs, db_states, db_logs>> ]_vars

\* C17: a check with the inactive credential was refused while a counter and a
\* ledger entry of the active credential existed
C17_Witness ==
    /\ IsCheck /\ last.sc = other /\ BadCredential(other)
    /\ other.api_key \in DOMAIN api_keys_db
    /\ last.result.status = "API key is inactive"
    /\ \/ backend = "memory" /\ DOMAIN rate_limits_store # { } /\ usage_logs # << >>
       \/ backend = "database" /\ db_states # { } /\ db_logs # << >>

\* the retry_after of a result of the database limiter as its caller reads it
\* (main_db.py: rate_limit_result.get("retry_after", 0))
RetryAfterRead(result) ==
    IF result.retry_after = Absent THEN 0 ELSE result.retry_after

\* C16: for every sequence of sequential checks against one scope key at given
\* times with a fixed quota, the in-memory limiter and the database limiter
\* return the same allowed flag, the same remaining count and the same
\* retry_after for every call (stated here for an absent or non-empty
\* sub-identity).
C16_SameResults ==
    ( IsCheck /\ PlainSubIdentity ) =>
        /\ shadow.result.status = last.result.status
        /\ shadow.result.allowed = last.result.allowed
        /\ shadow.result.remaining = last.result.remaining
        /\ RetryAfterRead(shadow.result) = last.result.retry_after

\* C21: check_rate_limit called with an empty api_key fails with an
\* InvalidScope error instead of building a key, and creates no counter.
C21_EmptyCredentialRejected ==
    ( IsCheck /\ last.sc.api_key = << >> ) =>
        /\ last.result.status = "InvalidScope"
        /\ get_rate_limit_key(<< >>, last.sc.user_id, last.sc.endpoint, "user")
               \notin DOMAIN rate_limits_store

\* C22: a denied check leaves the counter of its scope key as it was before
\* the call: count and window_start (and last_request in the database limiter)
\* are unchanged, in the in-memory limiter and in the database limiter.
C22_DeniedLeavesCounter ==
    ( IsCheck /\ IsDecision /\ ~last.result.allowed ) => last.after = last.before

\* C22, for calls that read one clock value throughout
C22_InstantDeniedLeavesCounter ==
    ( IsCheck /\ IsDecision /\ ~last.result.allowed /\ Instant ) => last.after = last.before

\* C22: a check was denied on a counter that existed, in the database limiter
C22_Reached ==
    /\ IsCheck /\ IsDecision /\ ~last.result.allowed /\ Instant /\ last.had
    /\ backend = "database" /\ last.after.current_requests = Cfg.max_requests

\* C23: get_usage_stats and get_system_stats are read-only: a statistics call
\* leaves every DBRateLimitState row and every DBRateLimitLog row as it was, so
\* every check returns what it returns in the run without statistics calls.
C23_DbStatsReadOnly ==
    [][ /\ last'.op \in { "usage_stats", "system_stats" } =>
              UNCHANGED <<db_states, db_logs>>
        /\ last'.op = "check" =>
              /\ last'.result = shadow'.result
              /\ db_states' = shadow'.rows
              /\ db_logs' = shadow'.dblogs ]_vars

\* C23: after a denied check a usage statistics call read a saturated counter
\* row and counted log rows
C23_Witness ==
    /\ last.op = "usage_stats"
    /\ last.sc.rate_state \in db_states
    /\ last.stats.current_window_requests = Cfg.max_requests
    /\ last.stats.total_requests_24h >= 1
    /\ shadow.result.status = "ok" /\ ~shadow.result.allowed

\* the sum of the values of a function with a finite domain
RECURSIVE SumOver(_, _)
SumOver(f, dom) ==
    IF dom = { } THEN 0
    ELSE LET x == CHOOSE y \in dom : TRUE IN f[x] + SumOver(f, dom \ { x })

\* the log rows a usage statistics call with the arguments a has to count: those
\* of the api_key, not older than a.hours hours at the time t of the call, with
\* the user_id and the endpoint of the call when one is given
LogRowsToCount(a, t) ==
    { i \in 1 .. Len(db_logs) :
        /\ db_logs[i].api_key = a.api_key
        /\ db_logs[i].timestamp >= t - a.hours * SecondsPerHour * TicksPerSec
        /\ a.user_id # None => db_logs[i].user_id = a.user_id
        /\ a.endpoint # None => db_logs[i].endpoint = a.endpoint[1] }

\* the counter rows with the api_key, the user_id (NULL when none is given) and,
\* when one is given, the endpoint of the call
CounterRowsSelected(a) ==
    { r \in db_states :
        /\ r.api_key = a.api_key
        /\ r.user_id = a.user_id
        /\ a.endpoint # None => r.endpoint = a.endpoint[1] }

UsageStatsExact ==
    /\ last.stats.total_requests_24h = Cardinality(LogRowsToCount(last.sc, last.first))
    /\ SumOver(last.stats.endpoint_breakdown, DOMAIN last.stats.endpoint_breakdown)
           = last.stats.total_requests_24h
    /\ IF CounterRowsSelected(last.sc) = { }
       THEN last.stats.current_window_requests = 0
       ELSE \E r \in CounterRowsSelected(last.sc) :
               last.stats.current_window_requests = r.current_requests

\* C30: get_usage_stats(api_key, user_id, endpoint, hours) counts exactly the
\* log rows of the api_key that are not older than hours hours and that match
\* the user_id and the endpoint when they are given; the values of
\* endpoint_breakdown sum to the total; current_window_requests is the
\* current_requests of the counter row the same arguments select.
C30_UsageStatsExact ==
    ( last.op = "usage_stats" /\ last.stats.status = "ok" ) => UsageStatsExact

\* C30, for a user_id that is absent or a non-empty string
C30_ExceptEmptyUserId ==
    ( last.op = "usage_stats" /\ last.stats.status = "ok"
      /\ last.sc.user_id # Some(<< >>) ) => UsageStatsExact

\* C30: a call with a user_id and an old lookback limit counted some log rows
\* and left others out
C30_Reached ==
    /\ last.op = "usage_stats" /\ last.stats.status = "ok"
    /\ last.sc.user_id = Some(UserU) /\ last.sc.hours = 0
    /\ last.stats.total_requests_24h = 1
    /\ Len(db_logs) = 2
    /\ last.stats.current_window_requests = 1

\* the last n elements of a sequence
LastN(seq, n) == SubSeq(seq, Len(seq) - n + 1, Len(seq))

\* C24: after n sequential check_rate_limit calls usage_logs holds exactly the
\* entries of the most recent min(n, retention) calls in call order, oldest
\* first, each as it was appended; its length never exceeds the retention.
C24_LedgerIsRecentCalls ==
    /\ Len(usage_logs) <= MaxUsageLogs
    /\ Len(shadow.logs) = script
    /\ usage_logs = LastN(shadow.logs, IF script <= MaxUsageLogs THEN script
                                        ELSE MaxUsageLogs)

\* C24: more calls than the retention were made, the evicted one being an
\* admitted call and the newest one a denied call
C24_Witness ==
    /\ script > MaxUsageLogs
    /\ Len(usage_logs) = MaxUsageLogs
    /\ shadow.logs[1].allowed
    /\ shadow.logs[1] # usage_logs[1]
    /\ ~usage_logs[Len(usage_logs)].allowed

\* C25: when check_rate_limit of the database limiter ends by raising a
\* storage error, at whichever commit, the counter row of the scope key has the
\* current_requests and window_start it had before the call and no log row was
\* written.
C25_AllOrNothing ==
    [][ ( last'.op = "check" /\ last'.result.status = "OperationalError" ) =>
          UNCHANGED <<db_states, db_logs>> ]_vars

\* C26: after any interleaving of concurrent checks of the database limiter,
\* several first checks of one fresh scope included, the rate_limit_states
\* table holds at most one row per (api_key, user_id, endpoint) triple, for a
\* user_id that is present or absent.
C26_OneRowPerTriple ==
    \A r1 \in db_states, r2 \in db_states :
        ( r1.api_key = r2.api_key /\ r1.user_id = r2.user_id /\ r1.endpoint = r2.endpoint )
            => r1 = r2

\* C26, for a user_id that is present
C26_PresentUserId ==
    \A r1 \in db_states, r2 \in db_states :
        ( r1.api_key = r2.api_key /\ r1.user_id = r2.user_id /\ r1.endpoint = r2.endpoint
          /\ r1.user_id # None )
            => r1 = r2

\* C27: with a fixed quota and a clock that does not go back, every counter
\* reached by checks, statistics calls and rollovers has 0 <= count <=
\* max_requests and, in the database limiter, window_start <= last_request; the
\* window_start of a counter never decreases.
C27_CounterInvariants ==
    [][ /\ \A ref \in DOMAIN heap' :
              /\ 0 <= heap'[ref].requests_count
              /\ heap'[ref].requests_count <= heap'[ref].max_requests
        /\ \A r \in db_states' :
              /\ 0 <= r.current_requests
              /\ r.current_requests <= Cfg.max_requests
              /\ r.window_start <= r.last_request
        /\ \A ref \in DOMAIN heap : heap[ref].window_start <= heap'[ref].window_start
        /\ \A r \in db_states, r2 \in db_states' :
              r.id = r2.id => r.window_start <= r2.window_start ]_vars

\* C27: a counter saturated in a window that opened by a rollover, in the
\* database limiter with a last request after the window start
C27_Witness ==
    /\ IsCheck /\ IsDecision /\ last.had
    /\ backend = "database"
    /\ last.after.window_start > 0
    /\ last.after.current_requests = Cfg.max_requests
    /\ last.after.last_request > last.after.window_start

\* The result check_rate_limit would return for the last call if the bucket
\* of its key carried the quota passed to that call
ResultUnderCallQuota ==
    LET key  == get_rate_limit_key(last.sc.api_key, last.sc.user_id, last.sc.endpoint, "user")
        ref  == rate_limits_store[key]
        b    == [ last.before EXCEPT !.max_requests = probe.cfg.max_requests,
                                     !.window_seconds = probe.cfg.window_seconds ]
        c    == consume(b, 1, last.first)
        hp   == [ heap EXCEPT ![ref] = c.bucket ]
    IN  check_rate_limit_tail(hp, << >>, ref, c.ok, last.sc.api_key, last.sc.user_id,
                              last.sc.endpoint, last.first, last.first).result

\* C28: a check of an existing scope key is decided by the quota passed to
\* that call: allowed, remaining and retry_after are those computed from the
\* max_requests and window_seconds of the current call's api_key_config.
C28_DecidedByCallQuota ==
    ( IsCheck /\ probe.op = "direct" /\ last.had ) =>
        last.result = ResultUnderCallQuota

\* C28: a check that passes the quota its key was created with is decided by
\* that quota.
C28_SameQuotaAsFirstCall ==
    ( /\ IsCheck /\ probe.op = "direct" /\ last.had
      /\ probe.cfg.max_requests = last.before.max_requests
      /\ probe.cfg.window_seconds = last.before.window_seconds ) =>
        last.result = ResultUnderCallQuota

\* C28: an existing key was checked with a quota that differs from its bucket's
C28_Reached ==
    /\ IsCheck /\ probe.op = "direct" /\ last.had
    /\ probe.cfg.max_requests # last.before.max_requests

\* The totals of api_key k over a sequence of ledger entries
TotalsOver(entries, k) ==
    LET mine == { i \in 1 .. Len(entries) : entries[i].api_key = k } IN
    [ total    |-> Cardinality(mine),
      allowed  |-> Cardinality({ i \in mine : entries[i].allowed }),
      rejected |-> Cardinality({ i \in mine : ~entries[i].allowed }) ]

StatsMatch(entries) ==
    LET c == TotalsOver(entries, last.stats.api_key) IN
    /\ last.stats.total_requests = c.total
    /\ last.stats.allowed_requests = c.allowed
    /\ last.stats.rejected_requests = c.rejected
    /\ last.stats.last_hour_requests <= last.stats.last_day_requests
    /\ last.stats.last_day_requests <= last.stats.total_requests

\* C29: after any sequence of checks, get_rate_limit_stats(k) reports as
\* total_requests the number of checks made with api_key k, as allowed_requests
\* the number admitted and as rejected_requests the number denied, with
\* last_hour_requests <= last_day_requests <= total_requests.
C29_TotalsOfAllChecks ==
    last.op = "stats" => StatsMatch(shadow.logs)

\* C29: get_rate_limit_stats(k) reports the totals of the checks of api_key k
\* among the most recent min(n, retention) checks, those the ledger retains,
\* with last_hour_requests <= last_day_requests <= total_requests.
C29_TotalsOfRetainedChecks ==
    last.op = "stats" =>
        StatsMatch(IF Len(shadow.logs) > MaxUsageLogs
                   THEN LastN(shadow.logs, MaxUsageLogs)
                   ELSE shadow.logs)

\* C29: statistics of the checked api_key read after the ledger evicted an
\* entry, with an admitted and a denied check retained
C29_Witness ==
    /\ last.op = "stats"
    /\ Len(shadow.logs) > MaxUsageLogs
    /\ last.stats.api_key = scope.api_key
    /\ last.stats.allowed_requests >= 1
    /\ last.stats.rejected_requests >= 1

\* the first check of a key that is not in the store is allowed with
\* remaining = max_requests - 1
FirstCheckAllowed ==
    ( IsCheck /\ IsDecision /\ last.isNew ) =>
        /\ last.result.allowed
        /\ last.result.remaining = api_keys_db[last.sc.api_key].max_requests - 1

\* C31: reset_rate_limits(api_key) removes exactly the counters of that
\* credential and leaves the counters of every other credential (count and
\* window_start) and the ledger unchanged; reset_rate_limits() removes all
\* counters and leaves the ledger unchanged; the first check of a removed key
\* afterwards is allowed with remaining = max_requests - 1.
C31_ResetOneCredential ==
    [][ /\ last'.op = "reset" =>
              /\ usage_logs' = usage_logs
              /\ IF Truthy(last'.sc.api_key)
                 THEN /\ DOMAIN rate_limits_store' =
                            { k \in DOMAIN rate_limits_store :
                                ScopeOfKey(k).api_key # last'.sc.api_key[1] }
                      /\ \A k \in DOMAIN rate_limits_store' :
                            heap'[rate_limits_store'[k]] = heap[rate_limits_store[k]]
                 ELSE rate_limits_store' = << >>
        /\ FirstCheckAllowed' ]_vars

\* C31: no reset changes the ledger or a counter it leaves in the store,
\* reset_rate_limits(api_key) removes the counters of that credential,
\* reset_rate_limits() removes all counters, and the first check of a removed
\* key afterwards is allowed with remaining = max_requests - 1.
C31_ResetRemovesCredential ==
    [][ /\ last'.op = "reset" =>
              /\ usage_logs' = usage_logs
              /\ IF Truthy(last'.sc.api_key)
                 THEN /\ \A k \in DOMAIN rate_limits_store' :
                            /\ k \in DOMAIN rate_limits_store
                            /\ ScopeOfKey(k).api_key # last'.sc.api_key[1]
                            /\ heap'[rate_limits_store'[k]] = heap[rate_limits_store[k]]
                 ELSE rate_limits_store' = << >>
        /\ FirstCheckAllowed' ]_vars

\* C31: no reset of one credential is made while the store holds counters of
\* two credentials and the ledger has entries
C31_NeverReached ==
    [][ ~ ( /\ last'.op = "reset" /\ Truthy(last'.sc.api_key)
            /\ \E k1, k2 \in DOMAIN rate_limits_store :
                  ScopeOfKey(k1).api_key # ScopeOfKey(k2).api_key
            /\ usage_logs # << >> ) ]_vars

\* the service answered a verdict
Answered(verdict) ==
    /\ probe.reached /\ probe.answer.has_allowed /\ probe.answer.allowed = verdict

\* C32: the contact form of a well-formed submission is processed (success
\* response) if and only if the service answered allowed = true or could not
\* be reached; when the service answers allowed = false the handler responds
\* 429 with retry_after and does not process the form.
C32_FailOpen ==
    ( probe.op = "contact" /\ probe.form_ok ) =>
        /\ probe.response.success <=> ( Answered(TRUE) \/ ~probe.reached )
        /\ Answered(FALSE) =>
              /\ probe.response.status = 429
              /\ probe.response.retry_after = probe.answer.retry_after
              /\ ~probe.response.success

\* C32: the contact form is processed (success response) if and only if the
\* submission is well formed and the service did not answer allowed = false:
\* it answered allowed = true, answered an error without a verdict, or could
\* not be reached; when the service answers allowed = false the handler
\* responds 429 with the retry_after of the answer and does not process the form.
C32_FailOpenOnErrors ==
    probe.op = "contact" =>
        /\ probe.response.success <=> ( probe.form_ok /\ ~Answered(FALSE) )
        /\ Answered(FALSE) =>
              /\ probe.response.status = 429
              /\ probe.response.retry_after = probe.answer.retry_after
              /\ ~probe.response.success

\* C32: a submission refused with 429 after the service answered allowed =
\* false with a retry_after, following one processed
C32_Witness ==
    /\ probe.op = "contact" /\ Answered(FALSE)
    /\ probe.response.status = 429 /\ probe.response.retry_after >= 1
    /\ db_logs # << >>

\* the result of the last check is consistent with its verdict
ConsistentResult ==
    /\ ~last.result.allowed =>
          /\ last.result.remaining = 0
          /\ last.result.retry_after >= 1
    /\ last.result.allowed =>
          /\ last.result.retry_after = 0
          /\ last.result.remaining <= last.after.max_requests - 1

\* C33: every result of the in-memory check is consistent even when the clock
\* advances between the clock reads of one call: allowed = false implies
\* remaining = 0 and retry_after >= 1, and allowed = true implies
\* retry_after = 0 and remaining <= max_requests - 1.
C33_ConsistentUnderDrift ==
    ( IsCheck /\ IsDecision /\ backend = "memory" ) => ConsistentResult

\* C33: the result of an in-memory check that read one clock value throughout
\* is consistent.
C33_ConsistentWhenInstant ==
    ( IsCheck /\ IsDecision /\ backend = "memory" /\ Instant ) => ConsistentResult

\* C33: an in-memory check during which the clock crossed the window boundary
C33_Reached ==
    /\ IsCheck /\ IsDecision /\ backend = "memory" /\ ~Instant
    /\ last.tlast >= last.before.window_start
                        + last.before.window_seconds * TicksPerSec
    /\ last.first < last.before.window_start
                        + last.before.window_seconds * TicksPerSec

\* the string has no separator character
ColonFree(str) == \A i \in 1 .. Len(str) : str[i] # ":"

\* C34: get_rate_limit_key with limit_type 'user' is injective on present,
\* non-empty components: two triples (api_key, user_id, endpoint) that differ
\* in a component have different keys, also when a value contains ':'.
C34_KeyInjective ==
    ( probe.op = "triple" /\ probe.sc[1] # probe.sc[2] ) => probe.key[1] # probe.key[2]

\* C34: two triples that differ in a component and whose api_key and user_id
\* contain no ':' have different keys.
C34_InjectiveWithoutColon ==
    ( /\ probe.op = "triple" /\ probe.sc[1] # probe.sc[2]
      /\ \A i \in 1 .. 2 : ColonFree(probe.sc[i].api_key)
                             /\ ColonFree(probe.sc[i].user_id[1]) ) =>
        probe.key[1] # probe.key[2]

\* C34: two different triples were given, one with a ':' in a component
C34_Reached ==
    /\ probe.op = "triple" /\ probe.sc[1] # probe.sc[2]
    /\ ~ColonFree(probe.sc[1].api_key)
    /\ probe.key[1] # probe.key[2]

\* the keys of the store that were created by checks made with api_key k
OwnKeys(k) == { key \in DOMAIN rate_limits_store : ScopeOfKey(key).api_key = k }

\* a statistics call reports one entry per counter of its credential and
\* changes no counter of another credential
StatsOfOwnCounters ==
    last'.op = "stats" =>
        /\ Cardinality(DOMAIN last'.stats.buckets)
              = Cardinality(OwnKeys(last'.stats.api_key))
        /\ \A key \in DOMAIN rate_limits_store \ OwnKeys(last'.stats.api_key) :
              heap'[rate_limits_store[key]] = heap[rate_limits_store[key]]

\* C35: get_rate_limit_stats(k) reports in 'buckets' only counters created by
\* checks made with api_key exactly k, one entry per such counter, and never
\* reads or resets a counter created with a different api_key.
C35_StatsOfOneCredential ==
    [][ StatsOfOwnCounters ]_vars

\* C35: when no other key of the store contains k and the credential k has at
\* most one counter, get_rate_limit_stats(k) reports that counter alone and
\* changes no counter of another credential.
C35_StatsOfSingleCounter ==
    [][ ( /\ last'.op = "stats"
          /\ StatsKeysOf(rate_limits_store, last'.stats.api_key)
                = OwnKeys(last'.stats.api_key)
          /\ Cardinality(OwnKeys(last'.stats.api_key)) <= 1 )
        => StatsOfOwnCounters ]_vars

\* C35: no statistics call of a credential resets the expired counter of
\* another credential
C35_NeverResetsOther ==
    [][ last'.op = "stats" =>
          \A key \in DOMAIN rate_limits_store \ OwnKeys(last'.stats.api_key) :
              heap'[rate_limits_store[key]] = heap[rate_limits_store[key]] ]_vars

\* the counters of the keys other than that of the descriptor sc are the same
\* after the step as before it
OtherCountersKept(sc) ==
    /\ \A key \in DOMAIN rate_limits_store :
          key # get_rate_limit_key(sc.api_key, sc.user_id, sc.endpoint, "user") =>
              /\ key \in DOMAIN rate_limits_store'
              /\ heap'[rate_limits_store'[key]] = heap[rate_limits_store[key]]
    /\ \A r \in db_states \ OwnRows(db_states, sc) : r \in db_states'

\* C36: a check on one scope key changes only the counter of that key: the
\* count and window_start of every other key (different api_key, different
\* sub-identity or different endpoint) are the same as before the call, in the
\* in-memory and in the database limiter.
C36_CheckChangesOwnCounter ==
    [][ last'.op = "check" => OtherCountersKept(last'.sc) ]_vars

\* C36, for checks whose sub-identity is absent or a non-empty string
C36_ExceptEmptySubIdentity ==
    [][ ( last'.op = "check" /\ last'.sc.user_id # Some(<< >>) )
          => OtherCountersKept(last'.sc) ]_vars

\* C36: no admitted check is made for one descriptor while the other has a
\* counter
C36_NeverReached ==
    [][ ~ ( /\ last'.op = "check" /\ last'.result.allowed
            /\ \/ \E key \in DOMAIN rate_limits_store :
                     key # get_rate_limit_key(last'.sc.api_key, last'.sc.user_id,
                                              last'.sc.endpoint, "user")
               \/ db_states \ OwnRows(db_states, last'.sc) # { } ) ]_vars

\* the most recent min(n, Len(seq)) elements of seq, in order
MostRecent(seq, n) == IF Len(seq) > n THEN LastN(seq, n) ELSE seq

\* C37: get_all_usage_logs(limit) returns at most limit entries, the most
\* recent min(limit, len(usage_logs)) entries of the ledger in ledger order,
\* for every limit >= 0 (limit = 0 returns no entries), and never modifies
\* usage_logs.
C37_AtMostLimit ==
    [][ last'.op = "logs" =>
          /\ Len(last'.stats) <= last'.first
          /\ last'.stats = MostRecent(usage_logs, last'.first)
          /\ usage_logs' = usage_logs ]_vars

\* C37, for every limit >= 1
C37_PositiveLimit ==
    [][ ( last'.op = "logs" /\ last'.first >= 1 ) =>
          /\ Len(last'.stats) <= last'.first
          /\ last'.stats = MostRecent(usage_logs, last'.first)
          /\ usage_logs' = usage_logs ]_vars

\* C37: get_all_usage_logs is never called with a limit below the length of
\* a ledger that has evicted an entry
C37_NeverReached ==
    [][ ~ ( last'.op = "logs" /\ last'.first < Len(usage_logs)
            /\ script > MaxUsageLogs ) ]_vars

\* the set of the positions a page returned
PageSet(p) == { probe.got[p][i] : i \in 1 .. Len(probe.got[p]) }

\* C38: for a fixed limit and an unchanged ledger, two different pages of
\* /logs return disjoint sets of entries, and the pages 1..n together return
\* each of the most recent n*limit entries exactly once.
C38_Pagination ==
    probe.op = "pages" =>
        /\ \A p, q \in DOMAIN probe.got : p # q => PageSet(p) \cap PageSet(q) = { }
        /\ \A n \in 1 .. MaxPage :
              ( 1 .. n ) \subseteq DOMAIN probe.got =>
                  /\ UNION { PageSet(p) : p \in 1 .. n }
                        = { i \in 1 .. Len(usage_logs) :
                              i > Len(usage_logs) - n * probe.limit }
                  /\ \A p \in 1 .. n : Cardinality(PageSet(p)) = Len(probe.got[p])

\* C38: page 1 of /logs returns the most recent min(limit, len) entries of the
\* ledger, each once.
C38_FirstPage ==
    ( probe.op = "pages" /\ 1 \in DOMAIN probe.got ) =>
        /\ PageSet(1) = { i \in 1 .. Len(usage_logs) :
                            i > Len(usage_logs) - probe.limit }
        /\ Cardinality(PageSet(1)) = Len(probe.got[1])

\* C38: two pages were fetched from a ledger that holds entries for both
C38_Reached ==
    /\ probe.op = "pages" /\ DOMAIN probe.got = 1 .. 2
    /\ Len(usage_logs) >= 2 * probe.limit

====
